---------------------------- MODULE Spec2Model ----------------------------
(***************************************************************************)
(* A model of the Perplexity chat client of Sukarth/perplexity-ide:        *)
(*   - PerplexityClient.processStreamingResponse, the server-sent-event    *)
(*     parser (node/perplexityClient.ts, here src/unnamed/part_001),       *)
(*   - PerplexityService, the conversation orchestrator                    *)
(*     (browser/perplexityServiceImpl.ts).                                 *)
(*                                                                         *)
(* Text is modelled by TLA+ strings, one character per UTF-16 code unit.   *)
(* A response stream is a string with one character per byte: an ASCII     *)
(* byte is its character, and the two bytes of U+00E9 in UTF-8 (0xC3 0xA9) *)
(* are written LeadByte and ContByte.  Decoded text writes U+00E9 as       *)
(* EAcute and the replacement character U+FFFD as Replacement.             *)
(***************************************************************************)
EXTENDS Integers, Sequences, FiniteSets, TLC

(***************************************************************************)
(* String helpers: the methods of String.prototype the code uses           *)
(***************************************************************************)
Ch(s, i) == IF i >= 1 /\ i <= Len(s) THEN SubSeq(s, i, i) ELSE ""

\* s.startsWith(p)
StartsWith(s, p) == Len(s) >= Len(p) /\ SubSeq(s, 1, Len(p)) = p

\* s.substring(n)
Substring(s, n) == IF n >= Len(s) THEN "" ELSE SubSeq(s, n + 1, Len(s))

\* the characters String.prototype.trim removes that can occur in a stream
WhiteSpace == {" ", "\t", "\r", "\n", "\f"}

RECURSIVE TrimStart(_)
TrimStart(s) ==
    IF s /= "" /\ Ch(s, 1) \in WhiteSpace THEN TrimStart(Substring(s, 1)) ELSE s

RECURSIVE TrimEnd(_)
TrimEnd(s) ==
    IF s /= "" /\ Ch(s, Len(s)) \in WhiteSpace
    THEN TrimEnd(SubSeq(s, 1, Len(s) - 1))
    ELSE s

\* s.trim()
Trim(s) == TrimEnd(TrimStart(s))

\* raw.replace(/\r$/, '')
StripCR(s) ==
    IF s /= "" /\ Ch(s, Len(s)) = "\r" THEN SubSeq(s, 1, Len(s) - 1) ELSE s

\* s.indexOf(c, i - 1) + 1: the least index >= i of character c in s, 0 if
\* there is none
IndexOf(s, c, i) ==
    LET hits == {j \in i..Len(s) : Ch(s, j) = c} IN
    IF hits = {} THEN 0 ELSE CHOOSE j \in hits : \A m \in hits : j <= m

\* s.split('\n'): never empty, its last element is the text after the last '\n'
RECURSIVE Split(_)
Split(s) ==
    LET n == IndexOf(s, "\n", 1) IN
    IF n = 0 THEN <<s>>
    ELSE <<SubSeq(s, 1, n - 1)>> \o Split(Substring(s, n))

\* the concatenation of a sequence of strings
RECURSIVE Concat(_)
Concat(ss) == IF ss = <<>> THEN "" ELSE Head(ss) \o Concat(Tail(ss))

(***************************************************************************)
(* Buffer.prototype.toString(): UTF-8 decoding of one chunk on its own.    *)
(* A lead byte with its continuation byte is one character; a lead byte    *)
(* cut off from its continuation, and a continuation byte with no lead,    *)
(* each decode to U+FFFD.                                                  *)
(***************************************************************************)
LeadByte == "^"
ContByte == "~"
EAcute == "@"
Replacement == "?"

\* what the byte at index i contributes to the decoded text
DecodeAt(bytes, i) ==
    LET b == Ch(bytes, i) IN
    IF b = LeadByte
    THEN IF Ch(bytes, i + 1) = ContByte THEN EAcute ELSE Replacement
    ELSE IF b = ContByte
    THEN IF Ch(bytes, i - 1) = LeadByte THEN "" ELSE Replacement
    ELSE b

\* the decoded text of bytes lo..hi (halving keeps the evaluation shallow)
RECURSIVE DecodeRange(_, _, _)
DecodeRange(bytes, lo, hi) ==
    IF lo > hi THEN ""
    ELSE IF lo = hi THEN DecodeAt(bytes, lo)
    ELSE DecodeRange(bytes, lo, (lo + hi) \div 2)
            \o DecodeRange(bytes, (lo + hi) \div 2 + 1, hi)

Utf8Decode(bytes) == DecodeRange(bytes, 1, Len(bytes))

\* chunk.toString()
ChunkToString(chunk) == Utf8Decode(chunk)

(***************************************************************************)
(* JavaScript values, as JSON.parse builds them: each is tagged with what  *)
(* typeof / Array.isArray tell the code about it.                          *)
(***************************************************************************)
JStr(s) == [t |-> "string", v |-> <<s>>]
JNum(n) == [t |-> "number", v |-> <<n>>]
JBool(b) == [t |-> "boolean", v |-> <<b>>]
JArr(elems) == [t |-> "array", v |-> elems]
JObj(members) == [t |-> "object", v |-> members]
JNull == [t |-> "null", v |-> <<>>]
Undefined == [t |-> "undefined", v |-> <<>>]

\* the string of a string value
StrOf(x) == x.v[1]

\* an object's members are pairs <<key, value>>, in the order of the text
RECURSIVE Lookup(_, _)
Lookup(members, key) ==
    IF members = <<>> THEN Undefined
    ELSE IF members[Len(members)][1] = key THEN members[Len(members)][2]
    ELSE Lookup(SubSeq(members, 1, Len(members) - 1), key)

\* x.key for a non-null x: a property of an object, undefined on anything else
\* (no key the code reads is an own property of an array, string or number)
Get(x, key) == IF x.t = "object" THEN Lookup(x.v, key) ELSE Undefined

\* if (x)
Truthy(x) ==
    CASE x.t = "string" -> StrOf(x) /= ""
      [] x.t = "number" -> x.v[1] /= 0
      [] x.t = "boolean" -> x.v[1]
      [] x.t \in {"array", "object"} -> TRUE
      [] OTHER -> FALSE

(***************************************************************************)
(* JSON.parse: a recursive-descent parser of JSON text (objects, arrays,   *)
(* strings with the escapes \" \\ \/ \n, integers, true, false, null).     *)
(* A parse yields [ok, v, i]: whether it succeeded, the value, and the     *)
(* index after it.                                                         *)
(***************************************************************************)
JsonWs == {" ", "\t", "\r", "\n"}
Digits == {"0", "1", "2", "3", "4", "5", "6", "7", "8", "9"}

DigitVal(c) ==
    CASE c = "0" -> 0 [] c = "1" -> 1 [] c = "2" -> 2 [] c = "3" -> 3
      [] c = "4" -> 4 [] c = "5" -> 5 [] c = "6" -> 6 [] c = "7" -> 7
      [] c = "8" -> 8 [] c = "9" -> 9

ParseFail == [ok |-> FALSE, v |-> Undefined, i |-> 0]
ParseOk(val, next) == [ok |-> TRUE, v |-> val, i |-> next]

RECURSIVE SkipWs(_, _)
SkipWs(s, i) == IF Ch(s, i) \in JsonWs THEN SkipWs(s, i + 1) ELSE i

RECURSIVE ParseStringBody(_, _, _)

\* the character c at index j of a string literal, e the one after it
StringChar(s, j, acc, c, e) ==
    IF j > Len(s) THEN ParseFail
    ELSE IF c = "\"" THEN ParseOk(JStr(acc), j + 1)
    ELSE IF c = "\\"
    THEN IF e \in {"\"", "\\", "/"} THEN ParseStringBody(s, j + 2, acc \o e)
         ELSE IF e = "n" THEN ParseStringBody(s, j + 2, acc \o "\n")
         ELSE ParseFail
    ELSE IF c \in {"\n", "\r", "\t", "\f"} THEN ParseFail
    ELSE ParseStringBody(s, j + 1, acc \o c)

\* a string literal from index j on (after its opening quote)
ParseStringBody(s, j, acc) == StringChar(s, j, acc, Ch(s, j), Ch(s, j + 1))

RECURSIVE ParseDigits(_, _, _)
ParseDigits(s, i, acc) ==
    IF Ch(s, i) \in Digits
    THEN ParseDigits(s, i + 1, 10 * acc + DigitVal(Ch(s, i)))
    ELSE ParseOk(JNum(acc), i)

ParseNumber(s, i) ==
    IF Ch(s, i) = "0"
    THEN IF Ch(s, i + 1) \in Digits THEN ParseFail ELSE ParseOk(JNum(0), i + 1)
    ELSE ParseDigits(s, i, 0)

RECURSIVE ParseValue(_, _)
RECURSIVE ParseElements(_, _, _)
RECURSIVE ParseMembers(_, _, _)

\* after an element of an array: its closing bracket, or a comma and more
ElementSep(s, j, elems) ==
    IF Ch(s, j) = "]" THEN ParseOk(JArr(elems), j + 1)
    ELSE IF Ch(s, j) = "," THEN ParseElements(s, SkipWs(s, j + 1), elems)
    ELSE ParseFail

ElementValue(s, r, acc) ==
    IF r.ok THEN ElementSep(s, SkipWs(s, r.i), Append(acc, r.v)) ELSE ParseFail

\* the elements of an array from index i on, up to its closing bracket
ParseElements(s, i, acc) == ElementValue(s, ParseValue(s, i), acc)

\* after a member of an object: its closing brace, or a comma and more
MemberSep(s, j, members) ==
    IF Ch(s, j) = "}" THEN ParseOk(JObj(members), j + 1)
    ELSE IF Ch(s, j) = "," THEN ParseMembers(s, SkipWs(s, j + 1), members)
    ELSE ParseFail

MemberValue(s, key, r, acc) ==
    IF r.ok THEN MemberSep(s, SkipWs(s, r.i), Append(acc, <<key, r.v>>))
    ELSE ParseFail

MemberColon(s, k, colon, acc) ==
    IF k.ok /\ Ch(s, colon) = ":"
    THEN MemberValue(s, StrOf(k.v), ParseValue(s, SkipWs(s, colon + 1)), acc)
    ELSE ParseFail

MemberKey(s, k, acc) == MemberColon(s, k, SkipWs(s, k.i), acc)

\* the members of an object from index i on, up to its closing brace
ParseMembers(s, i, acc) ==
    IF Ch(s, i) = "\"" THEN MemberKey(s, ParseStringBody(s, i + 1, ""), acc)
    ELSE ParseFail

\* a literal name
ParseLiteral(s, i, name, val) ==
    IF StartsWith(Substring(s, i - 1), name)
    THEN ParseOk(val, i + Len(name))
    ELSE ParseFail

\* an object or an array, whose first member or element is at index j
ParseObject(s, j) ==
    IF Ch(s, j) = "}" THEN ParseOk(JObj(<<>>), j + 1) ELSE ParseMembers(s, j, <<>>)

ParseArray(s, j) ==
    IF Ch(s, j) = "]" THEN ParseOk(JArr(<<>>), j + 1) ELSE ParseElements(s, j, <<>>)

ParseValueAt(s, i, c) ==
    CASE c = "{" -> ParseObject(s, SkipWs(s, i + 1))
      [] c = "[" -> ParseArray(s, SkipWs(s, i + 1))
      [] c = "\"" -> ParseStringBody(s, i + 1, "")
      [] c \in Digits -> ParseNumber(s, i)
      [] c = "t" -> ParseLiteral(s, i, "true", JBool(TRUE))
      [] c = "f" -> ParseLiteral(s, i, "false", JBool(FALSE))
      [] c = "n" -> ParseLiteral(s, i, "null", JNull)
      [] OTHER -> ParseFail

ParseValue(s, i) == ParseValueAt(s, i, Ch(s, i))

\* the whole text must be one value
ParseResult(text, r) ==
    IF r.ok /\ SkipWs(text, r.i) > Len(text)
    THEN [ok |-> TRUE, v |-> r.v]
    ELSE [ok |-> FALSE, v |-> Undefined]

\* JSON.parse(text): [ok |-> FALSE] stands for the SyntaxError it throws
JSONParse(text) == ParseResult(text, ParseValue(text, SkipWs(text, 1)))

(***************************************************************************)
(* PerplexityClient.processStreamingResponse: the 'data' handler.          *)
(* The closure variables are the record                                    *)
(*   [buffer, currentAnswer, threadUrlSlug, readWriteToken, lastEvent];    *)
(* a handler run carries them as h.p, with h.out the tokens it has passed  *)
(* to onToken so far and h.thrown set once the try block has thrown.       *)
(***************************************************************************)
ParserInit ==
    [buffer |-> "", currentAnswer |-> "", threadUrlSlug |-> JStr(""),
     readWriteToken |-> JStr(""), lastEvent |-> ""]

\* onToken(token)
OnToken(h, token) == [h EXCEPT !.out = Append(@, token)]

\* a variant that keeps the last chunk only as the answer
RECURSIVE EmitChunksReplacing(_, _)
EmitChunksReplacing(h, chunks) ==
    IF chunks = <<>> THEN h
    ELSE IF Head(chunks).t = "string"
    THEN EmitChunksReplacing([OnToken(h, StrOf(Head(chunks)))
                                 EXCEPT !.p.currentAnswer = StrOf(Head(chunks))],
                             Tail(chunks))
    ELSE EmitChunksReplacing(h, Tail(chunks))

\* for (const ch of mb.chunks) if (typeof ch === 'string') { onToken(ch); currentAnswer += ch }
RECURSIVE EmitChunks(_, _)
EmitChunks(h, chunks) ==
    IF chunks = <<>> THEN h
    ELSE IF Head(chunks).t = "string"
    THEN EmitChunks([OnToken(h, StrOf(Head(chunks)))
                        EXCEPT !.p.currentAnswer = @ \o StrOf(Head(chunks))],
                    Tail(chunks))
    ELSE EmitChunks(h, Tail(chunks))

\* x.length: a number for a string or an array; for an object its own
\* 'length' member; undefined (here -1, which compares below every length)
\* for anything else
LengthOf(x) ==
    CASE x.t = "string" -> Len(StrOf(x))
      [] x.t = "array" -> Len(x.v)
      [] x.t = "object" /\ Get(x, "length").t = "number" -> Get(x, "length").v[1]
      [] OTHER -> -1

\* a variant that emits the whole snapshot again
AnswerDeltaWhole(answer, currentAnswer) == answer

\* mb.answer.substring(currentAnswer.length)
AnswerDelta(answer, currentAnswer) == Substring(answer, Len(currentAnswer))

\* else if (mb.answer && mb.answer.length > currentAnswer.length) { ... }
\* on an answer that is no string, substring is not a function: a TypeError
AnswerFallback(h, mb) ==
    LET answer == Get(mb, "answer") IN
    IF Truthy(answer) /\ LengthOf(answer) > Len(h.p.currentAnswer)
    THEN IF answer.t = "string"
         THEN [OnToken(h, AnswerDelta(StrOf(answer), h.p.currentAnswer))
                  EXCEPT !.p.currentAnswer = StrOf(answer)]
         ELSE [h EXCEPT !.thrown = TRUE]
    ELSE h

\* the body of: for (const block of data.blocks)
ProcessBlock(h, block) ==
    LET mb == Get(block, "markdown_block")
        chunks == Get(mb, "chunks")
    IN  IF /\ Truthy(block)
           /\ Get(block, "intended_usage") = JStr("ask_text")
           /\ Truthy(mb)
        THEN IF chunks.t = "array" /\ Len(chunks.v) > 0
             THEN EmitChunks(h, chunks.v)
             ELSE AnswerFallback(h, mb)
        ELSE h

\* for (const block of data.blocks), left at the first throw
RECURSIVE ProcessBlocks(_, _)
ProcessBlocks(h, blocks) ==
    IF blocks = <<>> \/ h.thrown THEN h
    ELSE ProcessBlocks(ProcessBlock(h, Head(blocks)), Tail(blocks))

\* if (data.thread_url_slug) ...; if (data.read_write_token) ...
ExtractMetadataOnce(h, data) ==
    LET slug == Get(data, "thread_url_slug")
        token == Get(data, "read_write_token")
    IN  [h EXCEPT !.p.threadUrlSlug = IF Truthy(@) THEN @ ELSE slug,
                  !.p.readWriteToken = IF Truthy(@) THEN @ ELSE token]
ExtractMetadata(h, data) ==
    LET slug == Get(data, "thread_url_slug")
        token == Get(data, "read_write_token")
    IN  [h EXCEPT !.p.threadUrlSlug = IF Truthy(slug) THEN slug ELSE @,
                  !.p.readWriteToken = IF Truthy(token) THEN token ELSE @]

\* if (lastEvent && lastEvent !== 'message') continue
EventGateOpen(lastEvent) == FALSE
EventGateSkips(lastEvent) == lastEvent /= "" /\ lastEvent /= "message"

\* a variant whose catch block starts the answer afresh
CaughtResets(h) == [h EXCEPT !.thrown = FALSE, !.p.currentAnswer = ""]

\* catch (parseError) { }: the error is dropped, what the try block did
\* before it threw stays done
Caught(h) == [h EXCEPT !.thrown = FALSE]

\* the end of the try block: a throw in the loop over the blocks is caught
AfterBlocks(h) == IF h.thrown THEN Caught(h) ELSE h

\* the rest of the try block, after the metadata has been read
ProcessContent(h, blocks) ==
    IF EventGateSkips(h.p.lastEvent) THEN h
    ELSE IF blocks.t /= "array" THEN h
    ELSE AfterBlocks(ProcessBlocks(h, blocks.v))

\* the try block on a parsed document; reading a property of null throws
ProcessDocument(h, data) ==
    IF data.t = "null" THEN Caught(h)
    ELSE ProcessContent(ExtractMetadata(h, data), Get(data, "blocks"))

\* const data = JSON.parse(dataStr), which throws on malformed text
ProcessParsed(h, parsed) ==
    IF parsed.ok THEN ProcessDocument(h, parsed.v) ELSE Caught(h)

\* try { ... } catch (parseError) { } on one data payload
ProcessData(h, dataStr) == ProcessParsed(h, JSONParse(dataStr))

\* const line = raw.replace(/\r$/, '').trim()
CleanLine(raw) == Trim(StripCR(raw))

\* line.substring(6).trim(), of an 'event:' line and of a 'data:' line alike
Payload(line) == Trim(Substring(line, 6))

\* the body of: for (const raw of lines), after line has been computed
ProcessCleanLine(h, line) ==
    IF line = "" THEN h
    ELSE IF StartsWith(line, "event:")
    THEN [h EXCEPT !.p.lastEvent = Payload(line)]
    ELSE IF ~StartsWith(line, "data:") THEN h
    ELSE IF Payload(line) = "{}" THEN h
    ELSE ProcessData(h, Payload(line))

\* the body of: for (const raw of lines)
ProcessLine(h, raw) == ProcessCleanLine(h, CleanLine(raw))

RECURSIVE ProcessLines(_, _)
ProcessLines(h, lines) ==
    IF lines = <<>> THEN h
    ELSE ProcessLines(ProcessLine(h, Head(lines)), Tail(lines))

\* the complete lines: what is left of lines after lines.pop()
CompleteLines(lines) == SubSeq(lines, 1, Len(lines) - 1)

\* lines.pop() || ''
IncompleteLine(lines) == lines[Len(lines)]

\* the handler on the lines of the buffered text
HandleLines(p, lines) ==
    ProcessLines([p |-> [p EXCEPT !.buffer = IncompleteLine(lines)],
                  out |-> <<>>, thrown |-> FALSE],
                 CompleteLines(lines))

\* stream.on('data', chunk => ...): the closure variables after the handler
\* has run on chunk (.p), and the tokens it passed to onToken, in order (.out)
OnData(p, chunk) == HandleLines(p, Split(p.buffer \o ChunkToString(chunk)))

\* stream.on('end', ...): the PerplexityResponse the promise resolves with
OnEnd(p) ==
    [success |-> TRUE, answer |-> p.currentAnswer,
     threadUrlSlug |-> p.threadUrlSlug, readWriteToken |-> p.readWriteToken,
     fullResponse |-> Len(p.currentAnswer)]

(***************************************************************************)
(* The response streams of the model: every sequence of at most MaxLines   *)
(* lines of LinePool, each ended by a line feed, followed by one of Tails  *)
(* (text the stream ends on with no line feed after it).                   *)
(***************************************************************************)
MaxLines == 3
MaxChunk == 2

Quoted(s) == "\"" \o s \o "\""

\* an answer-text content block around the given markdown_block members
AskTextBlock(members) ==
    "{" \o Quoted("intended_usage") \o ":" \o Quoted("ask_text") \o ","
        \o Quoted("markdown_block") \o ":{" \o members \o "}}"

ChunksMember(list) == Quoted("chunks") \o ":[" \o list \o "]"
AnswerMember(text) == Quoted("answer") \o ":" \o Quoted(text)

\* a data: line whose document holds the given content blocks
BlocksLine(blocks) == "data: {" \o Quoted("blocks") \o ":[" \o blocks \o "]}"

\* member: a metadata member of a document
MetaMember(key, text) == Quoted(key) \o ":" \o Quoted(text)

LineLlo ==
    BlocksLine(AskTextBlock(ChunksMember(Quoted("l") \o "," \o Quoted("lo"))))
LineAnswerHello == BlocksLine(AskTextBlock(AnswerMember("Hello")))
\* a snapshot that continues the chunks "l" and "lo"
LineAnswerMore == BlocksLine(AskTextBlock(AnswerMember("llo!")))
\* metadata and a snapshot under an empty chunk list, ended by CR LF
LineAnswerHi ==
    "data: {" \o MetaMember("thread_url_slug", "slug-1") \o ","
              \o MetaMember("read_write_token", "rw-1") \o ","
              \o Quoted("blocks") \o ":["
              \o AskTextBlock(ChunksMember("") \o "," \o AnswerMember("Hi"))
              \o "]}\r"
LineEAcute ==
    BlocksLine(AskTextBlock(ChunksMember(Quoted(LeadByte \o ContByte))))
\* metadata only: another thread_url_slug, and an empty read_write_token
LineMetadata ==
    "data: {" \o MetaMember("thread_url_slug", "slug-2") \o ","
              \o MetaMember("read_write_token", "") \o "}"
LineMalformed == "data: {" \o Quoted("blocks") \o ":[" \o Quoted("lost")
LineEventMessage == "event: message"
LineEventStatus == "event: status"
LineEmptyDocument == " data: {}"
LineBlank == ""

LinePool ==
    {LineLlo, LineAnswerHello, LineAnswerMore, LineAnswerHi, LineEAcute,
     LineMetadata, LineMalformed, LineEventMessage, LineEventStatus, LineEmptyDocument,
     LineBlank}

\* what a stream may end on after its last line feed
TailMeta == "data: {" \o MetaMember("thread_url_slug", "tail") \o "}"
Tails == {"", TailMeta}

RECURSIVE JoinLines(_)
JoinLines(lines) ==
    IF lines = <<>> THEN "" ELSE Head(lines) \o "\n" \o JoinLines(Tail(lines))

Streams ==
    {JoinLines(ls) \o tail :
        ls \in UNION {[1..n -> LinePool] : n \in 0..MaxLines}, tail \in Tails}

(***************************************************************************)
(* State.                                                                  *)
(*   stream, pos   the bytes of the response stream under parse, and how   *)
(*                 many of them 'data' events have delivered               *)
(*   events        which of 'end' and 'error' the stream has emitted       *)
(*   received      the text of the chunks delivered so far, as the handler *)
(*                 decoded it (a history variable: the code keeps only the *)
(*                 incomplete line of it, in buffer)                       *)
(*   parser        the closure variables of processStreamingResponse       *)
(*   tokens        the arguments of the calls of onToken, in order         *)
(*   outcome       the state of the promise it returned                    *)
(*   response      <<>>, or <<r>> once it is resolved with r               *)
(***************************************************************************)
VARIABLES stream, pos, events, received, parser, tokens, outcome, response

parserVars ==
    <<stream, pos, events, received, parser, tokens, outcome, response>>

(***************************************************************************)
(* State of the orchestrator, PerplexityService, and of what it drives.    *)
(*   isWeb            platform.isWeb                                       *)
(*   sessionFile      the session file of the client: "absent", or what it *)
(*                    holds (SessionFiles)                                 *)
(*   isAuthenticated  PerplexityService._isAuthenticated                   *)
(*   client           PerplexityService._client: NoClient, WebStub, or the *)
(*                    index in clients of a PerplexityClient               *)
(*   clients          the PerplexityClient objects constructed so far,     *)
(*                    each with its cycleTLS and session fields            *)
(*   transports       for each transport that initCycleTLS() has built,    *)
(*                    the number of calls of its exit()                    *)
(*   procs            the invocations of initialize() and authenticate()   *)
(*   conversations    the keys of PerplexityService._conversations, in the *)
(*                    insertion order of the Map                           *)
(*   objects          the conversation objects, by id: those the Map holds *)
(*                    and those an exchange in flight still refers to      *)
(*   calls            the invocations of sendMessage()                     *)
(*   notifications    the calls of fire() on the three emitters, in order  *)
(*   stored           <<>>, or <<v>> with v the value last stored under    *)
(*                    'perplexity.conversations'                           *)
(*   now              Date.now()                                           *)
(*   nextId           the number of the next result of generateId()        *)
(*   op               the method the last step was a call of, if it was a  *)
(*                    call of sendMessage or of a method on the            *)
(*                    conversations, with its argument; or NoOp            *)
(*   currentConversation                                                   *)
(*                    PerplexityViewPane.currentConversation: the id of    *)
(*                    the conversation object the chat panel refers to, or *)
(*                    NoConversation                                       *)
(***************************************************************************)
VARIABLES isWeb, sessionFile, isAuthenticated, client, clients, transports,
          procs, conversations, objects, calls, notifications, stored, now,
          nextId, op, currentConversation

serviceVars ==
    <<isWeb, sessionFile, isAuthenticated, client, clients, transports, procs,
      conversations, objects, calls, notifications, stored, now, nextId, op,
      currentConversation>>

vars == <<parserVars, serviceVars>>

\* bounds of the orchestrator
MaxCalls == 2
MaxProcs == 2
MaxClock == 1
MaxCreateId == 1

NoClient == 0
WebStub == -1

\* op after any other step
NoOp == [name |-> "", arg |-> <<>>]

\* currentConversation of a chat panel in which no conversation is selected
NoConversation == ""

\* the cycleTLS field of a client is undefined, null, or the index in
\* transports of the transport it holds
NoTransport == 0
NullTransport == -1

\* a transport as initCycleTLS() returns it
NewTransport == 0

\* a PerplexityClient as its constructor leaves it
NewClient == [cycleTLS |-> NoTransport, session |-> "null"]

\* if (this.cycleTLS)
HoldsTransport(cl) == cl.cycleTLS >= 1

IdleProc ==
    [kind |-> "", pc |-> "idle", target |-> NoClient, hasSession |-> FALSE,
     handshake |-> "", written |-> FALSE, repeat |-> FALSE,
     exited |-> NoTransport, result |-> <<>>]

\* the response stream of an exchange, as the chunks it arrives in, and the
\* response stream of another exchange
Chunks == <<LineLlo \o "\n", LineAnswerHello \o "\n">>
OtherChunks == <<LineAnswerHi \o "\n", LineAnswerMore \o "\n">>

\* a call of sendMessage before it is made; chunks is the response stream
\* that the transport will answer its request with, if it answers with one
IdleCall ==
    [pc |-> "idle", content |-> "", messageId |-> "",
     conv |-> "", client |-> NoClient, transport |-> NoTransport,
     chunks |-> Chunks, delivered |-> 0,
     parser |-> ParserInit, response |-> <<>>, failure |-> "",
     requested |-> FALSE, answered |-> "", result |-> <<>>]

\* the fields of a PerplexityService after its constructor, on a profile
\* that stores no conversations
Constructed(nProcs, nCalls) ==
    /\ isAuthenticated = FALSE
    /\ client = NoClient
    /\ clients = <<>>
    /\ transports = <<>>
    /\ procs = [p \in 1..nProcs |-> IdleProc]
    /\ conversations = <<>>
    /\ objects = <<>>
    /\ calls = [c \in 1..nCalls |-> IdleCall]
    /\ notifications = <<>>
    /\ stored = <<>>
    /\ now = 0
    /\ nextId = 1
    /\ op = NoOp

\* new Promise((resolve, reject) => { let buffer = ''; ... })
ProcessStreamingResponse ==
    /\ pos = 0
    /\ events = {}
    /\ received = ""
    /\ parser = ParserInit
    /\ tokens = <<>>
    /\ outcome = "pending"
    /\ response = <<>>

InitParser ==
    /\ stream \in Streams
    /\ ProcessStreamingResponse
    /\ isWeb = FALSE
    /\ currentConversation = NoConversation
    /\ sessionFile = "absent"
    /\ Constructed(1, 1)

\* whether the next byte of the stream starts a line
AtLineStart == pos = 0 \/ Ch(stream, pos) = "\n"

\* the sizes of the next chunk: up to MaxChunk bytes anywhere and, at the
\* start of a line, also the whole line or all that is left of the stream
ChunkSizes ==
    LET left == Len(stream) - pos
        eol == IndexOf(stream, "\n", pos + 1)
    IN  {k \in 1..left : k <= MaxChunk}
            \cup (IF AtLineStart /\ left > 0
                  THEN {left} \cup (IF eol > 0 THEN {eol - pos} ELSE {})
                  ELSE {})

\* the effect of a run h of the 'data' handler on the state
Handled(h) ==
    /\ parser' = h.p
    /\ tokens' = tokens \o h.out

\* the stream emits 'data' with the next k bytes
StreamData(k) ==
    /\ events = {}
    /\ Handled(OnData(parser, SubSeq(stream, pos + 1, pos + k)))
    /\ received' = received \o ChunkToString(SubSeq(stream, pos + 1, pos + k))
    /\ pos' = pos + k
    /\ UNCHANGED <<stream, events, outcome, response>>
    /\ UNCHANGED serviceVars

\* resolve(value) and reject(reason) settle a pending promise, and do
\* nothing to a settled one
Resolve(value) ==
    IF outcome = "pending"
    THEN outcome' = "resolved" /\ response' = <<value>>
    ELSE UNCHANGED <<outcome, response>>

RejectSettled == outcome' = "rejected" /\ UNCHANGED response
Reject ==
    IF outcome = "pending"
    THEN outcome' = "rejected" /\ UNCHANGED response
    ELSE UNCHANGED <<outcome, response>>

\* the stream emits 'end', after all of its bytes
StreamEnd ==
    /\ "end" \notin events
    /\ pos = Len(stream)
    /\ events' = events \cup {"end"}
    /\ Resolve(OnEnd(parser))
    /\ UNCHANGED <<stream, pos, received, parser, tokens>>
    /\ UNCHANGED serviceVars

\* the stream emits 'error'
StreamError ==
    /\ "error" \notin events
    /\ events' = events \cup {"error"}
    /\ Reject
    /\ UNCHANGED <<stream, pos, received, parser, tokens>>
    /\ UNCHANGED serviceVars

NextParser ==
    \/ \E k \in ChunkSizes : StreamData(k)
    \/ StreamEnd
    \/ StreamError

SpecParser == InitParser /\ [][NextParser]_vars

(***************************************************************************)
(* Properties of the stream parser (SpecParser).                           *)
(***************************************************************************)
\* the handler state before any line
H0 == [p |-> ParserInit, out |-> <<>>, thrown |-> FALSE]

\* the lines completed so far
ReceivedLines == CompleteLines(Split(received))

\* a 'data' event has just completed a line
AtLineEnd == received /= "" /\ parser.buffer = ""

\* the tokens and the Response of the stream delivered as one single chunk
WholeRun(bytes) ==
    LET r == IF bytes = "" THEN H0 ELSE OnData(ParserInit, bytes)
    IN  [tokens |-> r.out, response |-> OnEnd(r.p)]

\* C1: however the bytes of a stream are split into 'data' chunks, once the
\* stream has ended the tokens passed to onToken and the resolved Response
\* are those of the same bytes delivered as one chunk.
C1_ChunkBoundaryIndependence ==
    outcome = "resolved" =>
        /\ tokens = WholeRun(stream).tokens
        /\ response = <<WholeRun(stream).response>>

\* C1, for the streams that hold ASCII bytes only.
IsAscii(bytes) == \A i \in 1..Len(bytes) : Ch(bytes, i) \notin {LeadByte, ContByte}
AsciiChunkBoundaryIndependence ==
    (outcome = "resolved" /\ IsAscii(stream)) =>
        /\ tokens = WholeRun(stream).tokens
        /\ response = <<WholeRun(stream).response>>

\* a document with exactly one content block, an answer-text block with no
\* chunk list or an empty one and a string as its answer
IsSnapshotDocument(data) ==
    LET blocks == Get(data, "blocks")
        mb == Get(blocks.v[1], "markdown_block")
    IN  /\ data.t = "object"
        /\ blocks.t = "array"
        /\ Len(blocks.v) = 1
        /\ Get(blocks.v[1], "intended_usage") = JStr("ask_text")
        /\ mb.t = "object"
        /\ Get(mb, "chunks") \in {Undefined, JArr(<<>>)}
        /\ Get(mb, "answer").t = "string"

SnapshotAnswer(data) ==
    StrOf(Get(Get(Get(data, "blocks").v[1], "markdown_block"), "answer"))

\* the last n characters of s
LastChars(s, n) == SubSeq(s, Len(s) - n + 1, Len(s))

\* C2: when the line a 'data' event has just completed is a data: line that
\* passes the event gate and carries one chunk-less answer-text block with
\* the cumulative answer a, then with K the length of the answer accumulated
\* before that line and L the length of a: if K < L the line has emitted
\* exactly one token, the last L - K characters of a, and a is the
\* accumulated answer; if L <= K it has emitted no token and the accumulated
\* answer is as it was.
C2_SuffixOnlyEmission ==
    AtLineEnd =>
        LET n == Len(ReceivedLines)
            before == ProcessLines(H0, SubSeq(ReceivedLines, 1, n - 1))
            line == CleanLine(ReceivedLines[n])
            doc == JSONParse(Payload(line))
            a == SnapshotAnswer(doc.v)
            K == Len(before.p.currentAnswer)
            L == Len(a)
        IN  (/\ StartsWith(line, "data:")
             /\ doc.ok
             /\ IsSnapshotDocument(doc.v)
             /\ ~EventGateSkips(before.p.lastEvent))
            => IF K < L
               THEN /\ tokens = Append(before.out, LastChars(a, L - K))
                    /\ parser.currentAnswer = a
               ELSE /\ tokens = before.out
                    /\ parser.currentAnswer = before.p.currentAnswer

\* a snapshot of "Hello" has arrived after the chunks "l" and "lo": K = 3 < L = 5
C2_Witness ==
    /\ AtLineEnd
    /\ ReceivedLines = <<LineLlo, LineAnswerHello>>
    /\ tokens = <<"l", "lo", "lo">>
    /\ parser.currentAnswer = "Hello"

\* a data: line whose payload JSON.parse rejects
IsMalformedDataLine(raw) ==
    /\ StartsWith(CleanLine(raw), "data:")
    /\ Payload(CleanLine(raw)) /= "{}"
    /\ ~JSONParse(Payload(CleanLine(raw))).ok

IsWellFormedLine(raw) == ~IsMalformedDataLine(raw)

\* C3: malformed data: lines change nothing.  Whenever a line has just been
\* completed, the tokens emitted and the closure variables (accumulated
\* answer, metadata, event name) are what the lines received so far yield
\* with the malformed data: lines left out; and the promise is rejected by
\* an 'error' event of the stream only.
C3_MalformedLineIgnored ==
    /\ outcome = "rejected" => "error" \in events
    /\ AtLineEnd =>
        LET ref == ProcessLines(H0, SelectSeq(ReceivedLines, IsWellFormedLine))
        IN  /\ tokens = ref.out
            /\ parser = ref.p

\* a stream with a malformed line between two lines that emit tokens has
\* ended, and the line after the malformed one has emitted its token
C3_Witness ==
    /\ stream = JoinLines(<<LineLlo, LineMalformed, LineAnswerHello>>)
    /\ outcome = "resolved"
    /\ tokens = <<"l", "lo", "lo">>

(***************************************************************************)
(* PerplexityService: conversations.                                       *)
(***************************************************************************)
Range(seq) == {seq[i] : i \in 1..Len(seq)}

\* generateId(): Date.now().toString(36) + Math.random().toString(36)...,
\* a string that is not empty and that no earlier call has returned
GenerateId(n) == "k" \o ToString(n)

DefaultTitle == "New Conversation"
TitleLimit == 50

\* content.length > 50 ? content.substring(0, 50) + '...' : content
TitleForWhole(content) == content
TitleFor(content) ==
    IF Len(content) > TitleLimit
    THEN SubSeq(content, 1, TitleLimit) \o "..."
    ELSE content

\* title || 'New Conversation', titleArg being <<>> for no argument
TitleOrDefault(titleArg) ==
    IF titleArg = <<>> \/ titleArg[1] = "" THEN DefaultTitle ELSE titleArg[1]

\* the object createConversation builds
NewConversation(id, title, t) ==
    [id |-> id, title |-> title, messages |-> <<>>,
     createdAt |-> t, updatedAt |-> t]

UserMessage(id, content, t) ==
    [id |-> id, content |-> content, timestamp |-> t, isUser |-> TRUE,
     response |-> <<>>]

AssistantMessage(id, resp, t) ==
    [id |-> id, content |-> resp.answer, timestamp |-> t, isUser |-> FALSE,
     response |-> <<resp>>]

\* conversation.messages.push(msg); conversation.updatedAt = new Date()
PushedNothing(conv, msg, t) == [conv EXCEPT !.updatedAt = t]
PushedFront(conv, msg, t) ==
    [conv EXCEPT !.messages = <<msg>> \o @, !.updatedAt = t]
Pushed(conv, msg, t) ==
    [conv EXCEPT !.messages = Append(@, msg), !.updatedAt = t]

\* if (messages.length === 2 && title === 'New Conversation') title = ...
Retitled(conv, content) ==
    IF Len(conv.messages) = 2 /\ conv.title = DefaultTitle
    THEN [conv EXCEPT !.title = TitleFor(content)]
    ELSE conv

\* Map.prototype.set of a new key, Map.prototype.delete
MapSet(keys, id) == IF id \in Range(keys) THEN keys ELSE Append(keys, id)
MapDeleteAll(keys, id) == <<>>
MapDelete(keys, id) == SelectSeq(keys, LAMBDA k : k /= id)

\* Array.from(this._conversations.values())
Values(keys, objs) == [i \in 1..Len(keys) |-> objs[keys[i]]]

\* saveConversations(): the value stored
SaveConversations(keys, objs) == <<Values(keys, objs)>>

\* the calls of sendMessage that hold a reference to a conversation
HoldsConversation(call) ==
    call.pc \in {"created", "delay", "request", "streaming", "resolved"}

\* the objects that are reachable from the Map or from a call in flight
Collect(objs, keys, cs) ==
    LET live == Range(keys) \cup
                {cs[c].conv : c \in {d \in DOMAIN cs : HoldsConversation(cs[d])}}
    IN  [id \in live |-> objs[id]]

\* Array.prototype.sort with (a, b) => b.updatedAt - a.updatedAt: a stable
\* sort, here by insertion from the left
RECURSIVE InsertSorted(_, _)
InsertSorted(sorted, conv) ==
    IF sorted = <<>> THEN <<conv>>
    ELSE IF sorted[Len(sorted)].updatedAt >= conv.updatedAt
    THEN Append(sorted, conv)
    ELSE Append(InsertSorted(SubSeq(sorted, 1, Len(sorted) - 1), conv),
                sorted[Len(sorted)])

RECURSIVE SortByUpdatedAt(_)
SortByUpdatedAt(seq) ==
    IF seq = <<>> THEN <<>>
    ELSE InsertSorted(SortByUpdatedAt(SubSeq(seq, 1, Len(seq) - 1)),
                      seq[Len(seq)])

\* getConversations() on a Map with these keys and objects
SortedConversations(keys, objs) == SortByUpdatedAt(Values(keys, objs))
GetConversations == SortedConversations(conversations, objects)

\* getConversation(id): <<>> stands for undefined
GetConversation(id) ==
    IF id \in Range(conversations) THEN <<objects[id]>> ELSE <<>>

\* the notifications
TokenEvent(messageId, token) ==
    [type |-> "token", messageId |-> messageId, token |-> token]
CompleteEvent(messageId, resp) ==
    [type |-> "complete", messageId |-> messageId, response |-> resp]
AuthEvent(value) == [type |-> "auth", value |-> value]

\* onToken called on each token of out, in order
TokenEventsReversed(messageId, out) ==
    [i \in 1..Len(out) |-> TokenEvent(messageId, out[Len(out) + 1 - i])]
TokenEvents(messageId, out) ==
    [i \in 1..Len(out) |-> TokenEvent(messageId, out[i])]

\* the inputs of the orchestrator
Content50 == "Which of the two parsers handles the split lines??"
Content51 == "Which of the two parsers handles the split lines???"
Contents == {Content50, Content51}
UnknownId == "zz"
TitleArgs == {<<>>, <<"">>, <<"Plan">>, <<DefaultTitle>>}

\* the identifiers a caller passes: none, the empty string, an id no
\* conversation has, and the ids of the stored conversations
IdArgs == {<<>>, <<"">>, <<UnknownId>>} \cup {<<id>> : id \in Range(conversations)}

\* what the transport answers a request with: an exception, a status other
\* than 200, or status 200 and a stream
Responses == {"exception", "status", "stream"}

(***************************************************************************)
(* PerplexityClient.loadSession on what the session file holds.             *)
(***************************************************************************)
\* the texts a session file holds: a session, a file cut short, the text
\* null, an object without the fields of a session
SessionFileText(f) ==
    CASE f = "valid" -> "{" \o MetaMember("cookies", "c=1") \o "}"
      [] f = "cut" -> "{" \o Quoted("cookies")
      [] f = "null" -> "null"
      [] f = "empty" -> "{}"

SessionFiles == {"absent", "valid", "cut", "null", "empty"}

\* the session field that holds the parsed value v: null, a session, or
\* something else
SessionOf(v) ==
    IF v.t = "null" THEN "null"
    ELSE IF Truthy(Get(v, "cookies")) THEN "valid"
    ELSE "malformed"

\* JSON.parse(sessionData) for each text
SessionFileParsed ==
    [f \in SessionFiles \ {"absent"} |-> JSONParse(SessionFileText(f))]

\* loadSession() on a client whose session field holds session, the session
\* file being f: the session field afterwards and the value returned
LoadedSession(f, session) ==
    IF f = "absent" THEN [session |-> session, result |-> FALSE]
    ELSE IF SessionFileParsed[f].ok
    THEN [session |-> SessionOf(SessionFileParsed[f].v), result |-> TRUE]
    ELSE [session |-> session, result |-> FALSE]

(***************************************************************************)
(* PerplexityService.initialize and authenticate, a step for each part of  *)
(* them between two awaits.                                                *)
(***************************************************************************)
SetProc(p, kind, pc) ==
    [procs EXCEPT ![p] = [@ EXCEPT !.kind = kind, !.pc = pc]]

\* authenticate() returns value
AuthenticateReturns(p, value) ==
    [procs EXCEPT ![p] = [@ EXCEPT !.kind = "authenticate", !.pc = "done",
                                   !.result = <<value>>]]

\* this._isAuthenticated = value; _onDidChangeAuthenticationStatus.fire(value)
SetAuthenticatedStale(value) ==
    /\ isAuthenticated' = value
    /\ notifications' = Append(notifications, AuthEvent(isAuthenticated))
SetAuthenticated(value) ==
    /\ isAuthenticated' = value
    /\ notifications' = Append(notifications, AuthEvent(value))

\* invocations are numbered in the order they are made
CanStartProc(p) ==
    procs[p].pc = "idle" /\ (IF p = 1 THEN TRUE ELSE procs[p - 1].pc /= "idle")

\* whether an invocation of initialize() on the service has returned
\* without an error, and dispose() was not called
InitializedBefore ==
    /\ \E q \in DOMAIN procs :
          procs[q].kind = "initialize" /\ procs[q].pc = "done"
    /\ \A q \in DOMAIN procs : procs[q].kind /= "dispose"

\* initialize() up to its first await
Initialize(p) ==
    /\ CanStartProc(p)
    /\ IF isWeb
       THEN /\ client' = WebStub
            /\ SetAuthenticated(FALSE)
            /\ procs' = [procs EXCEPT ![p] =
                  [@ EXCEPT !.kind = "initialize", !.pc = "done",
                            !.repeat = InitializedBefore]]
       ELSE /\ procs' = [procs EXCEPT ![p] =
                  [@ EXCEPT !.kind = "initialize", !.pc = "import",
                            !.repeat = InitializedBefore]]
            /\ UNCHANGED <<client, isAuthenticated, notifications>>
    /\ op' = NoOp
    /\ UNCHANGED <<currentConversation, isWeb, transports, sessionFile, clients, conversations, objects, calls,
                   stored, now, nextId>>
    /\ UNCHANGED parserVars

\* authenticate() from the test of isWeb on: createSession() is called on
\* this._client, and returns false at once if its transport cannot be called
\* (this.cycleTLS is no function: a TypeError that createSession() catches)
AuthenticateRest(p) ==
    IF isWeb
    THEN /\ SetAuthenticated(FALSE)
         /\ procs' = AuthenticateReturns(p, FALSE)
    ELSE IF client \in 1..Len(clients) /\ HoldsTransport(clients[client])
    THEN /\ procs' = [procs EXCEPT ![p] = [@ EXCEPT !.kind = "authenticate",
                                                    !.pc = "createSession",
                                                    !.target = client]]
         /\ UNCHANGED <<isAuthenticated, notifications>>
    ELSE /\ SetAuthenticated(FALSE)
         /\ procs' = [AuthenticateReturns(p, FALSE) EXCEPT
                         ![p].target = client, ![p].handshake = "notCallable"]

\* authenticate() up to its first await
Authenticate(p) ==
    /\ CanStartProc(p)
    /\ IF client = NoClient
       THEN IF isWeb
            THEN /\ client' = WebStub
                 /\ SetAuthenticated(FALSE)
                 /\ procs' = SetProc(p, "authenticate", "returned")
            ELSE /\ procs' = SetProc(p, "authenticate", "import")
                 /\ UNCHANGED <<client, isAuthenticated, notifications>>
       ELSE /\ AuthenticateRest(p)
            /\ UNCHANGED client
    /\ op' = NoOp
    /\ UNCHANGED <<currentConversation, isWeb, transports, sessionFile, clients, conversations, objects, calls,
                   stored, now, nextId>>
    /\ UNCHANGED parserVars

\* the import has resolved: this._client = new PerplexityClient(), and
\* client.initialize() awaits initCycleTLS()
Imported(p) ==
    /\ procs[p].pc = "import"
    /\ clients' = Append(clients, NewClient)
    /\ client' = Len(clients) + 1
    /\ procs' = [procs EXCEPT ![p] = [@ EXCEPT !.pc = "initCycleTLS",
                                               !.target = Len(clients) + 1]]
    /\ op' = NoOp
    /\ UNCHANGED <<currentConversation, isWeb, transports, sessionFile, isAuthenticated, conversations, objects,
                   calls, notifications, stored, now, nextId>>
    /\ UNCHANGED parserVars

\* initCycleTLS() has settled: resolved (ok) or rejected
CycleTLSInitialized(p, ok) ==
    /\ procs[p].pc = "initCycleTLS"
    /\ IF ok
       THEN /\ transports' = Append(transports, NewTransport)
            /\ clients' = [clients EXCEPT ![procs[p].target].cycleTLS =
                                               Len(transports) + 1]
            /\ procs' = [procs EXCEPT ![p].pc =
                  IF procs[p].kind = "client.initialize" THEN "done"
                  ELSE "initialized"]
            /\ UNCHANGED <<isAuthenticated, notifications>>
       ELSE IF procs[p].kind \in {"initialize", "client.initialize"}
       THEN /\ procs' = [procs EXCEPT ![p].pc = "failed"]
            /\ UNCHANGED <<clients, transports, isAuthenticated, notifications>>
       ELSE /\ SetAuthenticated(FALSE)
            /\ procs' = AuthenticateReturns(p, FALSE)
            /\ UNCHANGED <<clients, transports>>
    /\ op' = NoOp
    /\ UNCHANGED <<currentConversation, isWeb, sessionFile, client, conversations, objects, calls,
                   stored, now, nextId>>
    /\ UNCHANGED parserVars

\* const hasSession = await this._client.loadSession(), up to the await
LoadSession(p) ==
    /\ procs[p].pc = "initialized"
    /\ clients' = [clients EXCEPT ![client].session =
                      LoadedSession(sessionFile, @).session]
    /\ procs' = [procs EXCEPT ![p] =
          [@ EXCEPT !.pc = "loaded",
                    !.hasSession =
                        LoadedSession(sessionFile, clients[client].session).result]]
    /\ op' = NoOp
    /\ UNCHANGED <<currentConversation, isWeb, transports, sessionFile, isAuthenticated, client, conversations,
                   objects, calls, notifications, stored, now, nextId>>
    /\ UNCHANGED parserVars

\* the rest of initialize()
InitializeReturns(p) ==
    /\ procs[p].pc = "loaded"
    /\ SetAuthenticated(procs[p].hasSession)
    /\ procs' = [procs EXCEPT ![p].pc =
                    IF procs[p].kind = "initialize" THEN "done" ELSE "returned"]
    /\ op' = NoOp
    /\ UNCHANGED <<currentConversation, isWeb, transports, sessionFile, client, clients, conversations, objects,
                   calls, stored, now, nextId>>
    /\ UNCHANGED parserVars

\* authenticate() after await this.initialize()
AuthenticateContinues(p) ==
    /\ procs[p].pc = "returned"
    /\ AuthenticateRest(p)
    /\ op' = NoOp
    /\ UNCHANGED <<currentConversation, isWeb, transports, sessionFile, client, clients, conversations, objects,
                   calls, stored, now, nextId>>
    /\ UNCHANGED parserVars

\* what the transport answers the request of createSession() with: an
\* exception, a status other than 200, status 200 without a set-cookie
\* header, status 200 with one
Handshakes == {"exception", "status", "noCookie", "ok"}

\* response.status === 200 && response.headers['set-cookie']
HandshakeAlways(r) == TRUE
HandshakeSucceeds(r) == r = "ok"

\* the request of createSession() has been answered with r: the session is
\* set and saveSession() writes the session file, which succeeds (written)
\* or throws an error that saveSession() catches; then the rest of
\* authenticate()
SessionResponse(p, r, written) ==
    /\ procs[p].pc = "createSession"
    /\ written => HandshakeSucceeds(r)
    /\ IF HandshakeSucceeds(r)
       THEN /\ clients' = [clients EXCEPT ![procs[p].target].session = "valid"]
            /\ sessionFile' = IF written THEN "valid" ELSE sessionFile
       ELSE UNCHANGED <<clients, sessionFile>>
    /\ SetAuthenticated(HandshakeSucceeds(r))
    /\ procs' = [procs EXCEPT ![p] =
                    [@ EXCEPT !.pc = "done", !.handshake = r,
                              !.written = written,
                              !.result = <<HandshakeSucceeds(r)>>]]
    /\ op' = NoOp
    /\ UNCHANGED <<currentConversation, isWeb, transports, client, conversations, objects, calls, stored, now,
                   nextId>>
    /\ UNCHANGED parserVars

(***************************************************************************)
(* PerplexityClient.initialize and close called on a client, and           *)
(* PerplexityService.dispose.                                              *)
(***************************************************************************)
\* whether an invocation of initialize() on client k has returned without
\* an error, and close() was not called on it
ClientInitializedBefore(k) ==
    /\ \E q \in DOMAIN procs :
          /\ procs[q].target = k
          /\ \/ procs[q].kind = "client.initialize" /\ procs[q].pc = "done"
             \/ /\ procs[q].kind = "initialize"
                /\ procs[q].pc \in {"initialized", "loaded", "done"}
    /\ \A q \in DOMAIN procs :
          procs[q].kind \in {"close", "dispose"} => procs[q].target /= k

\* initialize() on client k, up to its await
ClientInitialize(p, k) ==
    /\ CanStartProc(p)
    /\ procs' = [procs EXCEPT ![p] =
          [@ EXCEPT !.kind = "client.initialize", !.target = k,
                    !.repeat = ClientInitializedBefore(k),
                    !.pc = IF HoldsTransport(clients[k]) THEN "done"
                           ELSE "initCycleTLS"]]
    /\ op' = NoOp
    /\ UNCHANGED <<currentConversation, isWeb, transports, sessionFile, isAuthenticated, client,
                   clients, conversations, objects, calls, notifications,
                   stored, now, nextId>>
    /\ UNCHANGED parserVars

\* close() on client k, up to its await: it calls exit() on the transport
\* that the client holds, if it holds one
ClientClose(p, kind, k) ==
    /\ CanStartProc(p)
    /\ IF HoldsTransport(clients[k])
       THEN /\ transports' = [transports EXCEPT ![clients[k].cycleTLS] = @ + 1]
            /\ procs' = [procs EXCEPT ![p] =
                  [@ EXCEPT !.kind = kind, !.target = k, !.pc = "exit",
                            !.exited = clients[k].cycleTLS]]
       ELSE /\ procs' = [procs EXCEPT ![p] =
                  [@ EXCEPT !.kind = kind, !.target = k, !.pc = "done"]]
            /\ UNCHANGED transports
    /\ op' = NoOp
    /\ UNCHANGED <<currentConversation, isWeb, sessionFile, isAuthenticated, client, clients,
                   conversations, objects, calls, notifications, stored, now,
                   nextId>>
    /\ UNCHANGED parserVars

Close(p, k) == ClientClose(p, "close", k)

\* dispose(): if (this._client && !isWeb) this._client.close().catch(...);
\* the invocation is that of close(), which dispose() does not await
Dispose(p) ==
    IF client \in 1..Len(clients) /\ ~isWeb
    THEN ClientClose(p, "dispose", client)
    ELSE /\ CanStartProc(p)
         /\ procs' = SetProc(p, "dispose", "done")
         /\ op' = NoOp
         /\ UNCHANGED <<currentConversation, isWeb, transports, sessionFile, isAuthenticated, client,
                        clients, conversations, objects, calls, notifications,
                        stored, now, nextId>>
         /\ UNCHANGED parserVars

\* exit() has resolved: this.cycleTLS = null
ExitResolved(p) ==
    /\ procs[p].pc = "exit"
    /\ clients' = [clients EXCEPT ![procs[p].target].cycleTLS = NullTransport]
    /\ procs' = [procs EXCEPT ![p].pc = "done"]
    /\ op' = NoOp
    /\ UNCHANGED <<currentConversation, isWeb, transports, sessionFile, isAuthenticated, client,
                   conversations, objects, calls, notifications, stored, now,
                   nextId>>
    /\ UNCHANGED parserVars

(***************************************************************************)
(* PerplexityService.sendMessage with PerplexityClient.sendMessage, a step *)
(* for each part of them between two awaits or events of the stream.       *)
(***************************************************************************)
CanStartCall(c) ==
    calls[c].pc = "idle" /\ (IF c = 1 THEN TRUE ELSE calls[c - 1].pc /= "idle")

\* the promise of a call is rejected; the catch blocks on the way log the
\* error and throw again
Rejected(call, failure) == [call EXCEPT !.pc = "failed", !.failure = failure]

\* this._client.sendMessage(content, onToken) up to its first await, the
\* delay; it throws at once when the client holds no session
ClientSendMessage(call) ==
    IF client \in 1..Len(clients) /\ clients[client].session /= "null"
    THEN [call EXCEPT !.pc = "delay", !.client = client]
    ELSE Rejected(call, "noSession")

\* the user message is appended to the conversation of the call, and the
\* client is called
AppendUserAndSend(c, call) ==
    /\ calls' = [calls EXCEPT ![c] = ClientSendMessage(call)]
    /\ objects' =
        Collect([objects EXCEPT ![call.conv] =
                    Pushed(@, UserMessage(call.messageId, call.content, now), now)],
                conversations, calls')

\* createConversation(title) with the id of number n
Created(n, titleArg) ==
    /\ conversations' = MapSet(conversations, GenerateId(n))
    /\ objects' = objects @@
          (GenerateId(n) :>
              NewConversation(GenerateId(n), TitleOrDefault(titleArg), now))
    /\ stored' = SaveConversations(conversations', objects')

\* sendMessage(content, conversationId) up to its first await; idArg is <<>>
\* for no conversationId
SendMessage(c, content, idArg) ==
    /\ CanStartCall(c)
    /\ IF ~isAuthenticated
       THEN /\ calls' = [calls EXCEPT ![c] = Rejected(@, "notAuthenticated")]
            /\ UNCHANGED <<nextId, conversations, objects, stored>>
       ELSE IF isWeb
       THEN /\ calls' = [calls EXCEPT ![c] = Rejected(@, "web")]
            /\ UNCHANGED <<nextId, conversations, objects, stored>>
       ELSE IF idArg /= <<>> /\ idArg[1] /= ""
       THEN IF idArg[1] \notin Range(conversations)
            THEN /\ calls' = [calls EXCEPT ![c] = Rejected(@, "notFound")]
                 /\ nextId' = nextId + 1
                 /\ UNCHANGED <<conversations, objects, stored>>
            ELSE /\ AppendUserAndSend(c,
                       [calls[c] EXCEPT !.content = content,
                                        !.messageId = GenerateId(nextId),
                                        !.conv = idArg[1]])
                 /\ nextId' = nextId + 1
                 /\ UNCHANGED <<conversations, stored>>
       ELSE /\ Created(nextId + 1, <<>>)
            /\ calls' = [calls EXCEPT ![c] =
                  [@ EXCEPT !.content = content,
                            !.messageId = GenerateId(nextId),
                            !.conv = GenerateId(nextId + 1),
                            !.pc = "created"]]
            /\ nextId' = nextId + 2
    /\ op' = [name |-> "sendMessage", arg |-> idArg]
    /\ UNCHANGED <<currentConversation, isWeb, transports, sessionFile, isAuthenticated, client, clients, procs,
                   notifications, now>>
    /\ UNCHANGED parserVars

\* sendMessage() after await this.createConversation()
ContinueCreated(c) ==
    /\ calls[c].pc = "created"
    /\ AppendUserAndSend(c, calls[c])
    /\ op' = NoOp
    /\ UNCHANGED <<currentConversation, isWeb, transports, sessionFile, isAuthenticated, client, clients, procs,
                   conversations, notifications, stored, now, nextId>>
    /\ UNCHANGED parserVars

\* the delay of the client has elapsed: it calls its transport, which is
\* not callable if initCycleTLS() has not resolved for this client
Timer(c) ==
    /\ calls[c].pc = "delay"
    /\ calls' = [calls EXCEPT ![c] =
          IF HoldsTransport(clients[@.client])
          THEN [@ EXCEPT !.pc = "request", !.requested = TRUE,
                         !.transport = clients[calls[c].client].cycleTLS]
          ELSE Rejected(@, "transport")]
    /\ objects' = Collect(objects, conversations, calls')
    /\ op' = NoOp
    /\ UNCHANGED <<currentConversation, isWeb, transports, sessionFile, isAuthenticated, client, clients, procs,
                   conversations, notifications, stored, now, nextId>>
    /\ UNCHANGED parserVars

\* a transport answers requests and feeds its streams until its exit() is
\* called
Open(t) == transports[t] = 0

\* whether the request was answered, and response.status is 200
AnyStatus(r) == r /= "exception"
Status200(r) == r = "stream"

\* the transport settles the request with r: the response is handed to
\* processStreamingResponse if its status is 200
Respond(c, r) ==
    /\ calls[c].pc = "request"
    /\ Open(calls[c].transport)
    /\ calls' = [calls EXCEPT ![c] =
          IF Status200(r)
          THEN [@ EXCEPT !.pc = "streaming", !.answered = r]
          ELSE Rejected([@ EXCEPT !.answered = r],
                        IF r = "status" THEN "status" ELSE "transport")]
    /\ objects' = Collect(objects, conversations, calls')
    /\ op' = NoOp
    /\ UNCHANGED <<currentConversation, isWeb, transports, sessionFile, isAuthenticated, client, clients, procs,
                   conversations, notifications, stored, now, nextId>>
    /\ UNCHANGED parserVars

\* a variant in which the calls share the closure variables of the handler
DeliveredShared(c, h) ==
    /\ calls' = [d \in DOMAIN calls |->
          IF d = c THEN [calls[d] EXCEPT !.parser = h.p, !.delivered = @ + 1]
          ELSE [calls[d] EXCEPT !.parser = h.p]]
    /\ notifications' = notifications \o TokenEvents(calls[c].messageId, h.out)

\* the effect of a run h of the 'data' handler of call c
Delivered(c, h) ==
    /\ calls' = [calls EXCEPT ![c] =
          [@ EXCEPT !.parser = h.p, !.delivered = @ + 1]]
    /\ notifications' = notifications \o TokenEvents(calls[c].messageId, h.out)

\* the stream of call c emits 'data' with its next chunk
ExchangeData(c) ==
    /\ calls[c].pc = "streaming"
    /\ Open(calls[c].transport)
    /\ calls[c].delivered < Len(calls[c].chunks)
    /\ Delivered(c, OnData(calls[c].parser,
                            calls[c].chunks[calls[c].delivered + 1]))
    /\ op' = NoOp
    /\ UNCHANGED <<currentConversation, isWeb, transports, sessionFile, isAuthenticated, client, clients, procs,
                   conversations, objects, stored, now, nextId>>
    /\ UNCHANGED parserVars

\* the stream of call c emits 'end' after its last chunk
ExchangeEnd(c) ==
    /\ calls[c].pc = "streaming"
    /\ Open(calls[c].transport)
    /\ calls[c].delivered = Len(calls[c].chunks)
    /\ calls' = [calls EXCEPT ![c] =
          [@ EXCEPT !.pc = "resolved", !.response = <<OnEnd(calls[c].parser)>>]]
    /\ op' = NoOp
    /\ UNCHANGED <<currentConversation, isWeb, transports, sessionFile, isAuthenticated, client, clients, procs,
                   conversations, objects, notifications, stored, now, nextId>>
    /\ UNCHANGED parserVars

\* the stream of call c emits 'error' before 'end', on a transport that is
\* open or not
ExchangeError(c) ==
    /\ calls[c].pc = "streaming"
    /\ calls' = [calls EXCEPT ![c] = Rejected(@, "stream")]
    /\ objects' = Collect(objects, conversations, calls')
    /\ op' = NoOp
    /\ UNCHANGED <<currentConversation, isWeb, transports, sessionFile, isAuthenticated, client, clients, procs,
                   conversations, notifications, stored, now, nextId>>
    /\ UNCHANGED parserVars

\* the conversation of a call after lines 148-162
Answered(call, id) ==
    Retitled(Pushed(objects[call.conv],
                    AssistantMessage(id, call.response[1], now), now),
             call.content)

\* sendMessage() after await this._client.sendMessage(...)
Complete(c) ==
    /\ calls[c].pc = "resolved"
    /\ calls' = [calls EXCEPT ![c] =
          [@ EXCEPT !.pc = "done", !.result = <<calls[c].messageId>>]]
    /\ objects' =
        Collect([objects EXCEPT ![calls[c].conv] = Answered(calls[c], GenerateId(nextId))],
                conversations, calls')
    /\ stored' = SaveConversations(conversations,
          [objects EXCEPT ![calls[c].conv] = Answered(calls[c], GenerateId(nextId))])
    /\ notifications' =
        Append(notifications, CompleteEvent(calls[c].messageId, calls[c].response[1]))
    /\ nextId' = nextId + 1
    /\ op' = NoOp
    /\ UNCHANGED <<currentConversation, isWeb, transports, sessionFile, isAuthenticated, client, clients, procs,
                   conversations, now>>
    /\ UNCHANGED parserVars

(***************************************************************************)
(* The other operations of PerplexityService, and the clock.               *)
(***************************************************************************)
CreateConversation(titleArg) ==
    /\ nextId <= MaxCreateId
    /\ Created(nextId, titleArg)
    /\ nextId' = nextId + 1
    /\ op' = [name |-> "createConversation", arg |-> titleArg]
    /\ UNCHANGED <<currentConversation, isWeb, transports, sessionFile, isAuthenticated, client, clients, procs,
                   calls, notifications, now>>
    /\ UNCHANGED parserVars

DeleteConversation(id) ==
    /\ conversations' = MapDelete(conversations, id)
    /\ objects' = Collect(objects, conversations', calls)
    /\ stored' = SaveConversations(conversations', objects)
    /\ op' = [name |-> "deleteConversation", arg |-> <<id>>]
    /\ UNCHANGED <<currentConversation, isWeb, transports, sessionFile, isAuthenticated, client, clients, procs,
                   calls, notifications, now, nextId>>
    /\ UNCHANGED parserVars

ClearConversations ==
    /\ conversations' = <<>>
    /\ objects' = Collect(objects, <<>>, calls)
    /\ stored' = SaveConversations(<<>>, objects)
    /\ op' = [name |-> "clearConversations", arg |-> <<>>]
    /\ UNCHANGED <<currentConversation, isWeb, transports, sessionFile, isAuthenticated, client, clients, procs,
                   calls, notifications, now, nextId>>
    /\ UNCHANGED parserVars

\* a millisecond passes
Tick ==
    /\ now < MaxClock
    /\ now' = now + 1
    /\ op' = NoOp
    /\ UNCHANGED <<currentConversation, isWeb, transports, sessionFile, isAuthenticated, client, clients, procs,
                   conversations, objects, calls, notifications, stored, nextId>>
    /\ UNCHANGED parserVars

\* a desktop or a web window, with or without a session file, after the
\* construction of the service
InitService ==
    /\ stream = ""
    /\ ProcessStreamingResponse
    /\ isWeb \in BOOLEAN
    /\ currentConversation = NoConversation
    /\ sessionFile \in {"absent", "valid"}
    /\ Constructed(MaxProcs, 1)

AuthenticationStep ==
    \/ \E p \in DOMAIN procs : Initialize(p)
    \/ \E p \in DOMAIN procs : Authenticate(p)
    \/ \E p \in DOMAIN procs : Imported(p)
    \/ \E p \in DOMAIN procs, ok \in BOOLEAN : CycleTLSInitialized(p, ok)
    \/ \E p \in DOMAIN procs : LoadSession(p)
    \/ \E p \in DOMAIN procs : InitializeReturns(p)
    \/ \E p \in DOMAIN procs : AuthenticateContinues(p)
    \/ \E p \in DOMAIN procs, r \in Handshakes, written \in BOOLEAN :
            SessionResponse(p, r, written)

ExchangeStep ==
    \/ \E c \in DOMAIN calls, content \in Contents, idArg \in IdArgs :
            SendMessage(c, content, idArg)
    \/ \E c \in DOMAIN calls : ContinueCreated(c)
    \/ \E c \in DOMAIN calls : Timer(c)
    \/ \E c \in DOMAIN calls, r \in Responses : Respond(c, r)
    \/ \E c \in DOMAIN calls : ExchangeData(c)
    \/ \E c \in DOMAIN calls : ExchangeEnd(c)
    \/ \E c \in DOMAIN calls : ExchangeError(c)
    \/ \E c \in DOMAIN calls : Complete(c)

StoreStep ==
    \/ \E titleArg \in TitleArgs : CreateConversation(titleArg)
    \/ \E id \in Range(conversations) \cup {UnknownId} : DeleteConversation(id)
    \/ ClearConversations

\* the service from its construction on: its authentication, one exchange,
\* and conversations created by the caller
NextService ==
    \/ AuthenticationStep
    \/ ExchangeStep
    \/ \E titleArg \in TitleArgs : CreateConversation(titleArg)

SpecService == InitService /\ [][NextService]_vars

\* the service of a desktop window once initialize() has returned, having
\* found a session file
InitExchange ==
    /\ stream = ""
    /\ ProcessStreamingResponse
    /\ isWeb = FALSE
    /\ currentConversation = NoConversation
    /\ sessionFile = "valid"
    /\ isAuthenticated = TRUE
    /\ client = 1
    /\ clients = <<[cycleTLS |-> 1, session |-> "valid"]>>
    /\ transports = <<NewTransport>>
    /\ procs = <<[IdleProc EXCEPT !.kind = "initialize", !.pc = "done",
                                   !.target = 1, !.hasSession = TRUE]>>
    /\ conversations = <<>>
    /\ objects = <<>>
    /\ calls = [c \in 1..MaxCalls |-> IdleCall]
    /\ notifications = <<AuthEvent(TRUE)>>
    /\ stored = <<>>
    /\ now = 0
    /\ nextId = 1
    /\ op = NoOp

NextExchange == ExchangeStep \/ StoreStep

\* the exchanges and the conversations of an authenticated service, within
\* one millisecond
SpecExchange == InitExchange /\ [][NextExchange]_vars

\* the conversations of an authenticated service over time, while the
\* transport has not answered
NextOrdering ==
    \/ \E c \in DOMAIN calls, content \in Contents, idArg \in IdArgs :
            SendMessage(c, content, idArg)
    \/ \E c \in DOMAIN calls : ContinueCreated(c)
    \/ StoreStep
    \/ Tick

SpecOrdering == InitExchange /\ [][NextOrdering]_vars

\* the invocations of initialize(), close() and dispose() in a teardown
MaxTeardownProcs == 3

\* a window in which the service was constructed and a script has
\* constructed a PerplexityClient of its own, as test-perplexity.cjs does
InitTeardown ==
    /\ stream = ""
    /\ ProcessStreamingResponse
    /\ isWeb \in BOOLEAN
    /\ currentConversation = NoConversation
    /\ sessionFile \in {"absent", "valid"}
    /\ isAuthenticated = FALSE
    /\ client = NoClient
    /\ clients = <<NewClient>>
    /\ transports = <<>>
    /\ procs = [p \in 1..MaxTeardownProcs |-> IdleProc]
    /\ conversations = <<>>
    /\ objects = <<>>
    /\ calls = <<IdleCall>>
    /\ notifications = <<>>
    /\ stored = <<>>
    /\ now = 0
    /\ nextId = 1
    /\ op = NoOp

NextTeardown ==
    \/ \E p \in DOMAIN procs : Initialize(p)
    \/ \E p \in DOMAIN procs : Imported(p)
    \/ \E p \in DOMAIN procs, ok \in BOOLEAN : CycleTLSInitialized(p, ok)
    \/ \E p \in DOMAIN procs : LoadSession(p)
    \/ \E p \in DOMAIN procs : InitializeReturns(p)
    \/ \E p \in DOMAIN procs, k \in 1..Len(clients) : ClientInitialize(p, k)
    \/ \E p \in DOMAIN procs, k \in 1..Len(clients) : Close(p, k)
    \/ \E p \in DOMAIN procs : Dispose(p)
    \/ \E p \in DOMAIN procs : ExitResolved(p)

\* the construction and the release of transports, by the service and on a
\* client
SpecTeardown == InitTeardown /\ [][NextTeardown]_vars

\* the service of a desktop window once initialize() has returned, having
\* found a session file, with one exchange and one dispose() to come
InitCancel ==
    /\ stream = ""
    /\ ProcessStreamingResponse
    /\ isWeb = FALSE
    /\ currentConversation = NoConversation
    /\ sessionFile = "valid"
    /\ isAuthenticated = TRUE
    /\ client = 1
    /\ clients = <<[cycleTLS |-> 1, session |-> "valid"]>>
    /\ transports = <<NewTransport>>
    /\ procs = <<[IdleProc EXCEPT !.kind = "initialize", !.pc = "done",
                                   !.target = 1, !.hasSession = TRUE],
                 IdleProc>>
    /\ conversations = <<>>
    /\ objects = <<>>
    /\ calls = <<IdleCall>>
    /\ notifications = <<AuthEvent(TRUE)>>
    /\ stored = <<>>
    /\ now = 0
    /\ nextId = 1
    /\ op = NoOp

NextCancel ==
    \/ ExchangeStep
    \/ \E titleArg \in TitleArgs : CreateConversation(titleArg)
    \/ \E p \in DOMAIN procs : Dispose(p)
    \/ \E p \in DOMAIN procs : ExitResolved(p)

\* the stream of the exchange has a chunk to deliver, and its transport is
\* open; a step delivers a chunk of it
ChunkDue ==
    /\ calls[1].pc = "streaming"
    /\ Open(calls[1].transport)
    /\ calls[1].delivered < Len(calls[1].chunks)
ChunkDelivered == calls'[1].delivered > calls[1].delivered

\* what goes on once it can: the continuations of the calls in the job
\* queue, the timer of the delay, the answer and the stream of a transport
\* that is open (a chunk that is due is delivered: weak fairness of
\* ExchangeData, written out), and exit().  Nothing is assumed of a stream
\* whose transport is not open.
FairCancel ==
    /\ WF_vars(\E c \in DOMAIN calls : ContinueCreated(c))
    /\ WF_vars(\E c \in DOMAIN calls : Timer(c))
    /\ WF_vars(\E c \in DOMAIN calls, r \in Responses : Respond(c, r))
    /\ []<>(~ChunkDue) \/ []<><<ChunkDelivered>>_vars
    /\ WF_vars(\E c \in DOMAIN calls : ExchangeEnd(c))
    /\ WF_vars(\E c \in DOMAIN calls : Complete(c))
    /\ WF_vars(\E p \in DOMAIN procs : ExitResolved(p))

\* one exchange of an authenticated service, on a conversation of its own or
\* on one the caller has created, and the disposal of the service
SpecCancel == InitCancel /\ [][NextCancel]_vars /\ FairCancel

(***************************************************************************)
(* Properties of the exchanges (SpecExchange).                             *)
(***************************************************************************)
\* the tokens of the token notifications for message m, in the order of
\* their publication
TokensPublished(m) ==
    LET evs == SelectSeq(notifications,
                         LAMBDA n : n.type = "token" /\ n.messageId = m)
    IN  [i \in 1..Len(evs) |-> evs[i].token]

\* the positions in the log of the notifications of a type for message m
Positions(type, m) ==
    {i \in 1..Len(notifications) :
        notifications[i].type = type /\ notifications[i].messageId = m}

\* a fresh parser run over the first n chunks of the response stream
RECURSIVE ParserRun(_)
ParserRunNext(prev, n) ==
    [OnData(prev.p, Chunks[n]) EXCEPT !.out = prev.out \o @]
ParserRun(n) == IF n = 0 THEN H0 ELSE ParserRunNext(ParserRun(n - 1), n)

\* the tokens that a fresh parser emits on the first n chunks, for each n
ParserTokens == [n \in 0..Len(Chunks) |-> ParserRun(n).out]

\* the calls of sendMessage that were accepted: they have a message id
Accepted == {c \in DOMAIN calls : calls[c].messageId /= ""}

\* the accepted calls that have appended their user message to conversation id
Appended(id) ==
    {c \in Accepted : calls[c].conv = id /\ calls[c].pc /= "created"}

\* C4: notification ordering.  For every accepted call of sendMessage, the
\* token notifications that carry its message id are, in order, exactly the
\* tokens the parser has emitted on the chunks delivered so far; there is at
\* most one completion notification for that id, it is there iff the call
\* has returned, and every token notification for the id precedes it; the
\* call returns that id, which is the id of the user message it appended,
\* and no other call uses it.
C4_NotificationOrdering ==
    \A c \in Accepted :
        LET m == calls[c].messageId
        IN  /\ TokensPublished(m) = ParserTokens[calls[c].delivered]
            /\ Cardinality(Positions("complete", m)) <= 1
            /\ (Positions("complete", m) /= {}) <=> (calls[c].pc = "done")
            /\ \A i \in Positions("complete", m) :
                   \A j \in Positions("token", m) : j < i
            /\ calls[c].result = IF calls[c].pc = "done" THEN <<m>> ELSE <<>>
            /\ (c \in Appended(calls[c].conv) /\ calls[c].conv \in DOMAIN objects)
                   => \E i \in 1..Len(objects[calls[c].conv].messages) :
                          /\ objects[calls[c].conv].messages[i].id = m
                          /\ objects[calls[c].conv].messages[i].isUser
            /\ \A d \in Accepted \ {c} : calls[d].messageId /= m

\* two exchanges have run at once: one has completed after its three tokens,
\* and a token of the other was published between two of them
C4_Witness ==
    \E c \in Accepted, d \in Accepted :
        /\ c /= d
        /\ calls[c].pc = "done"
        /\ TokensPublished(calls[c].messageId) = <<"l", "lo", "lo">>
        /\ \E i \in Positions("token", calls[c].messageId),
              j \in Positions("token", calls[d].messageId),
              k \in Positions("token", calls[c].messageId) : i < j /\ j < k

\* how an exchange fails: an exception of the transport, a status other than
\* 200, an 'error' event of the stream
ExchangeFailures == {"transport", "status", "stream"}

\* C5: a failed exchange leaves an unanswered user message.  When the
\* exchange of a call fails, the call is rejected and returns no id, no
\* completion notification for its message is published, and its
\* conversation holds its user message, with the content given, once; the
\* conversation holds one user message for each call that appended to it and
\* one assistant message for each of them that completed, so that after
\* createConversation() and one failing sendMessage(content, thatId) it
\* holds exactly one message, the user message.
C5_FailedExchange ==
    \A c \in Accepted :
        calls[c].failure \in ExchangeFailures =>
            LET m == calls[c].messageId
                id == calls[c].conv
            IN  /\ calls[c].pc = "failed"
                /\ calls[c].result = <<>>
                /\ Positions("complete", m) = {}
                /\ id \in DOMAIN objects =>
                    LET msgs == objects[id].messages
                        mine == {i \in 1..Len(msgs) : msgs[i].id = m}
                        answers == {i \in 1..Len(msgs) : ~msgs[i].isUser}
                    IN  /\ Cardinality(mine) = 1
                        /\ \A i \in mine : /\ msgs[i].isUser
                                           /\ msgs[i].content = calls[c].content
                        /\ Cardinality(answers) =
                             Cardinality({d \in Appended(id) : calls[d].pc = "done"})
                        /\ Len(msgs) - Cardinality(answers) =
                             Cardinality(Appended(id))
                        /\ Appended(id) = {c} =>
                             /\ Len(msgs) = 1
                             /\ msgs[1].id = m

\* createConversation() returned k1, and sendMessage(content, k1) failed by
\* an 'error' event of its stream after tokens had been published; k1 is
\* stored and holds one message
C5_Witness ==
    \E c \in Accepted :
        /\ calls[c].failure = "stream"
        /\ calls[c].conv = GenerateId(1)
        /\ TokensPublished(calls[c].messageId) /= <<>>
        /\ calls[c].conv \in Range(conversations)
        /\ Len(objects[calls[c].conv].messages) = 1

\* C6: title rewrite.  In every step: a conversation with the default title
\* and one message, a user message, that receives an assistant message as
\* its second gets as title the content of the user message if that has at
\* most 50 characters, and else its first 50 characters and '...'; a
\* conversation that has two messages or more keeps its title; and a
\* conversation whose title is not the default keeps its title.
C6_TitleStep ==
    \A id \in DOMAIN objects \cap DOMAIN objects' :
        /\ ( /\ objects[id].title = DefaultTitle
             /\ Len(objects[id].messages) = 1
             /\ objects[id].messages[1].isUser
             /\ Len(objects'[id].messages) = 2
             /\ ~objects'[id].messages[2].isUser )
           => objects'[id].title =
                IF Len(objects[id].messages[1].content) <= 50
                THEN objects[id].messages[1].content
                ELSE SubSeq(objects[id].messages[1].content, 1, 50) \o "..."
        /\ Len(objects[id].messages) >= 2 => objects'[id].title = objects[id].title
        /\ objects[id].title /= DefaultTitle => objects'[id].title = objects[id].title

C6_TitleRewrite == [][C6_TitleStep]_vars

\* a conversation whose first message has 51 characters holds a third
\* message, and its title is the first 50 characters and '...'
C6_Witness ==
    \E id \in DOMAIN objects :
        /\ Len(objects[id].messages) = 3
        /\ objects[id].messages[1].content = Content51
        /\ ~objects[id].messages[2].isUser
        /\ objects[id].title = SubSeq(Content51, 1, 50) \o "..."

\* a list of conversations is in descending order of updatedAt
IsSortedByUpdatedAt(seq) ==
    \A i \in 1..(Len(seq) - 1) : seq[i].updatedAt >= seq[i + 1].updatedAt

\* getConversations() returns each stored conversation once, in descending
\* order of updatedAt
GetConversationsListing ==
    /\ IsSortedByUpdatedAt(GetConversations)
    /\ Len(GetConversations) = Len(conversations)
    /\ \A id \in Range(conversations) :
          Cardinality({i \in 1..Len(GetConversations) :
                          GetConversations[i] = objects[id]}) = 1

\* a step appends a message to the stored conversation that has the oldest
\* updatedAt, older than that of any other, and after it that conversation
\* is the first that getConversations() returns
AppendToOldestStep ==
    \A id \in Range(conversations) \cap Range(conversations') :
        ( /\ Len(objects'[id].messages) > Len(objects[id].messages)
          /\ \A other \in Range(conversations) \ {id} :
                objects[id].updatedAt < objects[other].updatedAt )
        => SortedConversations(conversations', objects')[1].id = id

\* C7: getConversations() returns every stored conversation exactly once, in
\* descending order of updatedAt, and after a message is appended to the
\* conversation with the oldest updatedAt, that conversation is the first
\* element of the result.
C7_GetConversationsOrdering ==
    /\ []GetConversationsListing
    /\ [][AppendToOldestStep]_vars

\* whether the client of the service holds no session
HoldsNoSession ==
    IF client \in 1..Len(clients) THEN clients[client].session = "null" ELSE TRUE

\* call c of sendMessage is made in this step
Called(c) == calls[c].pc = "idle" /\ calls'[c].pc /= "idle"

\* the step changes no conversation and publishes nothing
NothingChanged ==
    /\ conversations' = conversations
    /\ objects' = objects
    /\ notifications' = notifications

\* C8: NotAuthenticated.  A call of sendMessage made while the service is
\* not authenticated, or while its client holds no session, fails without a
\* transport request, leaves the conversations as they are and publishes no
\* notification.
C8_NotAuthenticated ==
    [][\A c \in DOMAIN calls :
          (Called(c) /\ (~isAuthenticated \/ HoldsNoSession))
          => /\ calls'[c].pc = "failed"
             /\ ~calls'[c].requested
             /\ NothingChanged]_vars

\* C9: ConversationNotFound.  A call sendMessage(content, id) with an id
\* that is no key of the store fails without a transport request, leaves the
\* conversations as they are and publishes no notification; a call
\* sendMessage(content) of an authenticated desktop service adds one
\* conversation, a new one, to the store, and after its await appends to it
\* the user message.
C9_Step ==
    \A c \in DOMAIN calls :
        /\ Called(c) =>
              IF op'.arg /= <<>> /\ op'.arg[1] \notin Range(conversations)
              THEN /\ calls'[c].pc = "failed"
                   /\ ~calls'[c].requested
                   /\ NothingChanged
              ELSE (op'.arg = <<>> /\ isAuthenticated /\ ~isWeb)
                   => /\ calls'[c].pc = "created"
                      /\ calls'[c].conv \notin DOMAIN objects
                      /\ conversations' = Append(conversations, calls'[c].conv)
                      /\ objects'[calls'[c].conv].messages = <<>>
                      /\ \A id \in DOMAIN objects : objects'[id] = objects[id]
        /\ (calls[c].pc = "created" /\ calls'[c].pc /= "created")
              => /\ conversations' = conversations
                 /\ calls[c].conv \in DOMAIN objects' =>
                       LET msgs == objects'[calls[c].conv].messages
                       IN  /\ Len(msgs) = Len(objects[calls[c].conv].messages) + 1
                           /\ msgs[Len(msgs)].id = calls[c].messageId
                           /\ msgs[Len(msgs)].content = calls[c].content
                           /\ msgs[Len(msgs)].isUser

C9_ConversationNotFound == [][C9_Step]_vars

\* C10: deleteConversation(id) with an id that is not in the store leaves
\* the stored conversations, their order and their contents as they are;
\* with an id that is in the store it removes that conversation and no
\* other, and leaves the others as they are; in both cases it changes no
\* call of sendMessage and publishes nothing.
C10_DeleteStep ==
    op'.name = "deleteConversation" =>
        /\ IF op'.arg[1] \in Range(conversations)
           THEN /\ Range(conversations') = Range(conversations) \ {op'.arg[1]}
                /\ Len(conversations') = Len(conversations) - 1
           ELSE conversations' = conversations
        /\ \A i \in 1..Len(conversations'), j \in 1..Len(conversations') :
              (i < j) =>
                 \E k \in 1..Len(conversations), l \in 1..Len(conversations) :
                    /\ k < l
                    /\ conversations[k] = conversations'[i]
                    /\ conversations[l] = conversations'[j]
        /\ \A id \in Range(conversations') : objects'[id] = objects[id]
        /\ calls' = calls
        /\ notifications' = notifications

C10_DeleteConversation == [][C10_DeleteStep]_vars

\* deleteConversation has just been called with an id that is not in the
\* store, which holds a conversation with a message of an exchange in flight
C10_Witness ==
    /\ op = [name |-> "deleteConversation", arg |-> <<UnknownId>>]
    /\ \E c \in Accepted :
          /\ calls[c].pc = "streaming"
          /\ calls[c].conv \in Range(conversations)
          /\ Len(objects[calls[c].conv].messages) = 1

(***************************************************************************)
(* Properties of the storage (SpecExchange).                               *)
(***************************************************************************)
\* JSON.stringify of a Date writes its time as text, and new Date(text)
\* reads the time back
DateToJSON(t) == ToString(t)
NewDate(text) == ParseDigits(text, 1, 0).v.v[1]

\* the conversation that loadConversations() builds from the text of one:
\* its dates and those of its messages go through text
Revived(conv) ==
    [conv EXCEPT
        !.createdAt = NewDate(DateToJSON(@)),
        !.updatedAt = NewDate(DateToJSON(@)),
        !.messages = [i \in 1..Len(@) |->
                        [@[i] EXCEPT !.timestamp = NewDate(DateToJSON(@))]]]

\* loadConversations() on the value st of the storage: the conversations of
\* the Map it builds, in the order of their insertion
LoadConversations(st) ==
    IF st = <<>> THEN <<>> ELSE [i \in 1..Len(st[1]) |-> Revived(st[1][i])]

\* no call of sendMessage is between its invocation and its return or failure
Quiescent == \A c \in DOMAIN calls : calls[c].pc \in {"idle", "done", "failed"}

\* C11: persistence synchronisation.  Whenever every public operation has
\* returned or failed, loading the conversations from the storage yields the
\* conversations and the messages that are in memory.
C11_PersistenceSynchronisation ==
    Quiescent => LoadConversations(stored) = Values(conversations, objects)

(***************************************************************************)
(* Properties of the authentication (SpecService).                         *)
(***************************************************************************)
\* the values of the authentication-status notifications, in order
AuthPublished ==
    LET evs == SelectSeq(notifications, LAMBDA n : n.type = "auth")
    IN  [i \in 1..Len(evs) |-> evs[i].value]

\* the invocations of initialize() and authenticate() that, in this step,
\* pass an assignment to _isAuthenticated (lines 59, 71, 88, 93 and 103):
\* they get to the end of initialize() or of authenticate()
Assigning ==
    {p \in DOMAIN procs :
        procs'[p] /= procs[p] /\ procs'[p].pc \in {"done", "returned"}}

\* what a step does to the authentication status and to its notifications
C12_Step ==
    IF Assigning /= {}
    THEN notifications' = Append(notifications, AuthEvent(isAuthenticated'))
    ELSE /\ isAuthenticated' = isAuthenticated
         /\ AuthPublished' = AuthPublished

\* the last notification published tells the authentication status
LastPublishedIsStatus ==
    AuthPublished /= <<>> => AuthPublished[Len(AuthPublished)] = isAuthenticated

\* C12: the authentication status is observable.  Every step in which
\* initialize() or authenticate() assigns isAuthenticated publishes, in that
\* step and as its only notification, an authentication-status notification
\* with the value assigned, on the success, the failure and the exception
\* paths alike; no other step changes isAuthenticated or publishes such a
\* notification; so the value of the last one published is isAuthenticated.
C12_AuthenticationObservable ==
    []LastPublishedIsStatus /\ [][C12_Step]_vars

\* a service that was authenticated has been set back by a failing
\* authenticate(), and both transitions were published
C12_Witness ==
    /\ ~isAuthenticated
    /\ Len(AuthPublished) >= 2
    /\ AuthPublished[Len(AuthPublished) - 1] = TRUE
    /\ AuthPublished[Len(AuthPublished)] = FALSE
    /\ \E p \in DOMAIN procs : procs[p].kind = "authenticate" /\ procs[p].pc = "done"

\* the invocations of authenticate() whose createSession() returns in this
\* step
CreatingSession ==
    {p \in DOMAIN procs :
        procs[p].pc = "createSession" /\ procs'[p].pc = "done"}

\* createSession() returns true exactly for a response of status 200 with a
\* set-cookie header, and then the client it was called on holds a session;
\* otherwise it changes neither the client nor the session file
CreateSessionStep ==
    \A p \in CreatingSession :
        /\ procs'[p].result = <<procs'[p].handshake = "ok">>
        /\ IF procs'[p].handshake = "ok"
           THEN clients'[procs[p].target].session = "valid"
           ELSE clients' = clients /\ sessionFile' = sessionFile

\* authenticate() does not throw; when it returns in this step, the service
\* is authenticated if it returns true and unauthenticated if it returns
\* false, and it returns true only after a successful handshake
AuthenticateStep ==
    \A p \in DOMAIN procs :
        (procs'[p].kind = "authenticate" /\ procs'[p] /= procs[p]) =>
            /\ procs'[p].pc /= "failed"
            /\ procs'[p].pc = "done" =>
                  /\ procs'[p].result = <<isAuthenticated'>>
                  /\ isAuthenticated' => p \in CreatingSession

\* the session file holds the session after every successful handshake
PersistedStep ==
    \A p \in CreatingSession :
        procs'[p].handshake = "ok" => sessionFile' = "valid"

\* the session file holds the session after a successful handshake if the
\* write of saveSession() succeeded, and is as it was if the write failed
WrittenStep ==
    \A p \in CreatingSession :
        procs'[p].handshake = "ok" =>
            sessionFile' = IF procs'[p].written THEN "valid" ELSE sessionFile

\* C13: authentication failure is a value, not an exception.  createSession()
\* returns true exactly when the handshake response has status 200 and a
\* set-cookie header, and then a session is stored in the client and
\* persisted in the session file; for another status, a missing header or an
\* exception of the transport it returns false and throws nothing.
\* authenticate() never throws: on any failure it returns false and leaves
\* the service unauthenticated, also when it was authenticated before.
C13_AuthenticationFailure ==
    [][CreateSessionStep /\ AuthenticateStep /\ PersistedStep]_vars

\* C13, amended: as C13, except that the session is persisted only if the
\* write of the session file succeeds; when the write fails, createSession()
\* still returns true, the client holds the session, and the session file is
\* left as it was.
C13_AuthenticationFailureAmended ==
    [][CreateSessionStep /\ AuthenticateStep /\ WrittenStep]_vars

\* authenticate() has returned false after a handshake answered with a status
\* other than 200, on a service that initialize() had authenticated from the
\* session file
C13_Witness ==
    /\ ~isAuthenticated
    /\ AuthPublished = <<TRUE, FALSE>>
    /\ \E p \in DOMAIN procs :
          /\ procs[p].kind = "authenticate"
          /\ procs[p].pc = "done"
          /\ procs[p].handshake = "status"
          /\ procs[p].result = <<FALSE>>

(***************************************************************************)
(* Properties of the failures of an exchange (SpecExchange).               *)
(***************************************************************************)
\* C14: RequestFailed.  When the transport has answered the request of a
\* call with a status other than 200, the call is rejected, at once and for
\* good; its response stream was not handed to the parser, which has
\* received no chunk and is in its initial state; no token notification
\* carries its message id; and it has no Response and returns none.
C14_RequestFailed ==
    \A c \in DOMAIN calls :
        calls[c].answered = "status" =>
            /\ calls[c].pc = "failed"
            /\ calls[c].failure = "status"
            /\ calls[c].delivered = 0
            /\ calls[c].parser = ParserInit
            /\ TokensPublished(calls[c].messageId) = <<>>
            /\ Positions("complete", calls[c].messageId) = {}
            /\ calls[c].response = <<>>
            /\ calls[c].result = <<>>

\* of two exchanges at once, one was answered with a status other than 200
\* and the other has streamed its tokens and completed
C14_Witness ==
    \E c \in Accepted, d \in Accepted :
        /\ calls[c].answered = "status"
        /\ calls[c].requested
        /\ calls[d].pc = "done"
        /\ TokensPublished(calls[d].messageId) /= <<>>

(***************************************************************************)
(* Properties of the settlement of the exchange promise (SpecParser).      *)
(***************************************************************************)
\* what a step does to the promise of processStreamingResponse
C15_Step ==
    /\ outcome /= "pending" => outcome' = outcome /\ response' = response
    /\ pos' /= pos => outcome' = outcome /\ response' = response
    /\ (outcome = "pending" /\ "error" \in events' \ events) =>
            outcome' = "rejected" /\ response' = <<>>
    /\ (outcome = "pending" /\ "end" \in events' \ events) =>
            outcome' = "resolved" /\ Len(response') = 1

\* a rejected exchange has no Response, and only an 'error' event rejects
RejectedByError ==
    outcome = "rejected" => response = <<>> /\ "error" \in events

\* C15: StreamError versus JSON-parse failure.  An 'error' event of the
\* response stream rejects the pending exchange, also after tokens were
\* emitted, and the exchange then has no Response; a 'data' event never
\* settles the exchange, whatever its lines are, so that a data: line that
\* fails to parse does not reject it; and a settled exchange stays as it is:
\* an 'end' after an 'error' and an 'error' after an 'end' change nothing.
C15_StreamErrorVersusParseFailure ==
    []RejectedByError /\ [][C15_Step]_vars

\* a stream with a malformed data: line was rejected by an 'error' event
\* after a token was emitted, and has emitted 'end' since
C15_Witness ==
    /\ outcome = "rejected"
    /\ events = {"error", "end"}
    /\ tokens /= <<>>
    /\ \E i \in 1..Len(ReceivedLines) : IsMalformedDataLine(ReceivedLines[i])

(***************************************************************************)
(* Properties of the teardown (SpecCancel, SpecTeardown).                  *)
(***************************************************************************)
\* the exchange waits on a response stream whose transport was closed
WaitsOnClosed ==
    calls[1].pc = "streaming" /\ ~Open(calls[1].transport)

\* the call of sendMessage was rejected with a stream error
RejectedWithStreamError ==
    calls[1].pc = "failed" /\ calls[1].failure = "stream"

\* C16: cancellation liveness.  If the transport is closed, by dispose() on
\* the service, while a call of sendMessage waits on the response stream,
\* the call is eventually rejected with a stream error: it does not stay
\* pending forever.
C16_CancellationLiveness == WaitsOnClosed ~> RejectedWithStreamError

\* the invocations of close(), those of dispose() included
Closes == {p \in DOMAIN procs : procs[p].kind \in {"close", "dispose"}}

\* exit() was called once on every transport that a close() has closed, and
\* on no transport more than once; no close() has failed
ReleasedOnce ==
    /\ \A t \in DOMAIN transports : transports[t] <= 1
    /\ \A p \in Closes :
          /\ procs[p].pc /= "failed"
          /\ procs[p].exited /= NoTransport => transports[procs[p].exited] = 1

\* a close() or dispose() called in this step on a client or service that
\* holds no transport completes at once and calls no exit()
C17_Step ==
    \A p \in DOMAIN procs :
        (procs[p].pc = "idle" /\ procs'[p].kind \in {"close", "dispose"}
            /\ (procs'[p].target = NoClient
                   \/ ~HoldsTransport(clients[procs'[p].target]))) =>
            /\ procs'[p].pc = "done"
            /\ transports' = transports
            /\ clients' = clients

\* C17: teardown releases the transport exactly once.  Over all invocations
\* of initialize() and close() on a client, exit() is called exactly once on
\* each transport that was built and then closed; a close() on a client that
\* a completed close() has left without transport, or whose transport was
\* never built, and a dispose() on such a service, complete without error
\* and call no exit().
C17_TeardownReleasesOnce == []ReleasedOnce /\ [][C17_Step]_vars

\* the invocations of initialize(), on the service or on a client, that take
\* a step and that were made after an invocation on the same object had
\* returned without error, no close() or dispose() having been called on it
Repeating ==
    {p \in DOMAIN procs : procs'[p] /= procs[p] /\ procs'[p].repeat}

\* the invocations of initialize() for which initCycleTLS() fails in this step
FailingToBuild ==
    {p \in DOMAIN procs :
        /\ procs[p].pc = "initCycleTLS"
        /\ procs'[p] /= procs[p]
        /\ transports' = transports
        /\ procs[p].kind \in {"initialize", "client.initialize"}}

C18_Step ==
    /\ Repeating /= {} =>
          /\ transports' = transports
          /\ clients' = clients
          /\ client' = client
    /\ \A p \in FailingToBuild : procs'[p].pc = "failed"

\* C18: initialize() is idempotent.  An invocation of initialize() made after
\* one that has returned without error builds no further transport and
\* leaves the client, its transport and its session as they are; and when
\* initCycleTLS() fails, initialize() fails with it, without a second
\* attempt.
C18_InitializeIdempotent == [][C18_Step]_vars

(***************************************************************************)
(* Properties of the terminal Response and of the event gate (SpecParser). *)
(***************************************************************************)
\* the document of a line, if the line is a data: line that the handler
\* parses: <<data>>, or <<>> for any other line
ParsedDocument(raw) ==
    LET line == CleanLine(raw)
        doc == JSONParse(Payload(line))
    IN  IF StartsWith(line, "data:") /\ Payload(line) /= "{}" /\ doc.ok
              /\ doc.v.t /= "null"
        THEN <<doc.v>> ELSE <<>>

\* the last non-empty value of the field key in the documents of lines, or
\* the empty string if there is none
RECURSIVE LastSeen(_, _)
LastSeen(key, lines) ==
    IF lines = <<>> THEN JStr("")
    ELSE LET doc == ParsedDocument(lines[Len(lines)])
         IN  IF doc /= <<>> /\ Truthy(Get(doc[1], key)) THEN Get(doc[1], key)
             ELSE LastSeen(key, SubSeq(lines, 1, Len(lines) - 1))

\* a resolved exchange stays as it is
ResolvedOnce ==
    outcome = "resolved" => outcome' = outcome /\ response' = response

\* the Response of an exchange that has resolved
TerminalResponse ==
    /\ ("end" \in events /\ "error" \notin events) => outcome = "resolved"
    /\ outcome = "resolved" =>
          /\ "end" \in events
          /\ Len(response) = 1
          /\ response[1].success = TRUE
          /\ response[1].answer = parser.currentAnswer
          /\ response[1].fullResponse = Len(response[1].answer)
          /\ response[1].threadUrlSlug = LastSeen("thread_url_slug", ReceivedLines)
          /\ response[1].readWriteToken = LastSeen("read_write_token", ReceivedLines)

\* C19: terminal Response.  When the response stream has ended with no
\* 'error' event before, the exchange is resolved, once and for good, with a
\* Response whose success is true, whose answer is the answer accumulated,
\* whose length field is the length of that answer, and whose threadUrlSlug
\* and readWriteToken are the last non-empty values of thread_url_slug and
\* read_write_token in the data: lines parsed, or empty if there is none.
C19_TerminalResponse == []TerminalResponse /\ [][ResolvedOnce]_vars

\* a stream has ended whose lines carried two values of thread_url_slug, the
\* later one with an empty read_write_token, and text after its last line
\* feed
C19_Witness ==
    /\ outcome = "resolved"
    /\ stream = JoinLines(<<LineAnswerHi, LineMetadata>>) \o TailMeta
    /\ response[1].threadUrlSlug = JStr("slug-2")
    /\ response[1].readWriteToken = JStr("rw-1")
    /\ response[1].answer = "Hi"
    /\ response[1].fullResponse = 2

\* the event name in force after lines: the payload of the last event: line
\* of them, or the empty string if there is none
RECURSIVE EventNameAfter(_)
EventNameAfter(lines) ==
    IF lines = <<>> THEN ""
    ELSE IF StartsWith(CleanLine(lines[Len(lines)]), "event:")
    THEN Payload(CleanLine(lines[Len(lines)]))
    ELSE EventNameAfter(SubSeq(lines, 1, Len(lines) - 1))

\* the value of a metadata field after a document that has the field key
MetadataAfter(old, doc, key) ==
    IF Truthy(Get(doc, key)) THEN Get(doc, key) ELSE old

\* what the line raw has done, the handler being as in before when it came
\* and name being the event name in force: ungated is what the line does
\* when no event name is in force
LineEffect(before, raw, name, doc, ungated) ==
    IF StartsWith(CleanLine(raw), "event:")
    THEN /\ tokens = before.out
         /\ parser = [before.p EXCEPT !.lastEvent = Payload(CleanLine(raw))]
    ELSE IF doc = <<>>
    THEN /\ tokens = before.out
         /\ parser = before.p
    ELSE /\ parser.lastEvent = name
         /\ parser.threadUrlSlug =
                MetadataAfter(before.p.threadUrlSlug, doc[1], "thread_url_slug")
         /\ parser.readWriteToken =
                MetadataAfter(before.p.readWriteToken, doc[1], "read_write_token")
         /\ IF name \in {"", "message"}
            THEN /\ tokens = ungated.out
                 /\ parser.currentAnswer = ungated.p.currentAnswer
            ELSE /\ tokens = before.out
                 /\ parser.currentAnswer = before.p.currentAnswer

\* the effect of the last of the lines received, after the others
LastLineEffect(front, raw) ==
    LineEffect(ProcessLines(H0, front), raw, EventNameAfter(front),
               ParsedDocument(raw),
               ProcessLine([ProcessLines(H0, front) EXCEPT !.p.lastEvent = ""],
                           raw))

\* C20: event-name gating.  Whenever a line has just been completed, in
\* whatever chunks the lines have come: the event name in force is that of
\* the last event: line received; an event: line has changed only that
\* name; a blank line, a data: line with the payload {} and a line that is
\* not parsed have changed nothing; a parsed data: document has set the
\* metadata fields it carries whatever the event name, and has emitted the
\* tokens and changed the answer as with no event name if the name in force
\* is empty or 'message', and not at all otherwise.
C20_EventNameGating ==
    AtLineEnd =>
        /\ parser.lastEvent = EventNameAfter(ReceivedLines)
        /\ LastLineEffect(SubSeq(ReceivedLines, 1, Len(ReceivedLines) - 1),
                          ReceivedLines[Len(ReceivedLines)])

\* after 'event: status' a data: line with metadata and an answer has set
\* the metadata and emitted nothing; after 'event: message' a line has
\* emitted its tokens
C20_Witness ==
    /\ AtLineEnd
    /\ ReceivedLines = <<LineEventStatus, LineAnswerHi, LineEventMessage>>
    /\ parser.threadUrlSlug = JStr("slug-1")
    /\ parser.currentAnswer = ""
    /\ tokens = <<>>
    /\ parser.lastEvent = "message"

(***************************************************************************)
(* The conversations over time: exchanges issued one at a time and the     *)
(* store operations of an authenticated service while the clock advances.  *)
(***************************************************************************)
\* no call of sendMessage is in flight
NoneInFlight == \A d \in DOMAIN calls : calls[d].pc \in {"idle", "done", "failed"}

\* a caller that awaits each sendMessage before it issues the next
SendMessageInTurn(c, content, idArg) ==
    NoneInFlight /\ SendMessage(c, content, idArg)

\* the steps of an exchange after its call
ExchangeContinues ==
    \/ \E c \in DOMAIN calls : ContinueCreated(c)
    \/ \E c \in DOMAIN calls : Timer(c)
    \/ \E c \in DOMAIN calls, r \in Responses : Respond(c, r)
    \/ \E c \in DOMAIN calls : ExchangeData(c)
    \/ \E c \in DOMAIN calls : ExchangeEnd(c)
    \/ \E c \in DOMAIN calls : ExchangeError(c)
    \/ \E c \in DOMAIN calls : Complete(c)

NextConversation ==
    \/ \E c \in DOMAIN calls, content \in Contents, idArg \in IdArgs :
            SendMessageInTurn(c, content, idArg)
    \/ ExchangeContinues
    \/ StoreStep
    \/ Tick

SpecConversation == InitExchange /\ [][NextConversation]_vars

\* whether the sequence a is the front of the sequence b
IsPrefix(a, b) == Len(a) <= Len(b) /\ SubSeq(b, 1, Len(a)) = a

\* the ids of the conversations that are stored before and after a step
StoredThrough == Range(conversations) \cap Range(conversations')

\* C21: conversation invariant.  In every step, for every conversation that
\* is stored before and after it: its messages are left as they were or
\* extended at the end (none is removed, replaced or reordered, so that the
\* id and isUser of a message never change), its createdAt is kept, its
\* updatedAt does not decrease, and if a message was appended its updatedAt
\* is the current time.  In every state updatedAt >= createdAt for every
\* stored conversation.
C21_Step ==
    \A id \in StoredThrough :
        /\ IsPrefix(objects[id].messages, objects'[id].messages)
        /\ objects'[id].createdAt = objects[id].createdAt
        /\ objects'[id].updatedAt >= objects[id].updatedAt
        /\ Len(objects'[id].messages) > Len(objects[id].messages)
              => objects'[id].updatedAt = now'

UpdatedAfterCreated ==
    \A id \in Range(conversations) :
        objects[id].updatedAt >= objects[id].createdAt

C21_ConversationInvariant == []UpdatedAfterCreated /\ [][C21_Step]_vars

\* a stored conversation that was created at one time holds a user message
\* and the assistant message appended at a later time
C21_Witness ==
    \E id \in Range(conversations) :
        /\ Len(objects[id].messages) = 2
        /\ objects[id].messages[1].isUser
        /\ ~objects[id].messages[2].isUser
        /\ objects[id].createdAt = 0
        /\ objects[id].updatedAt = 1

(***************************************************************************)
(* Loading: PerplexityService.loadConversations, called by the             *)
(* constructor, and PerplexityClient.loadSession, on whatever the storage  *)
(* and the session file hold.                                              *)
(***************************************************************************)
\* a Date, by its time; InvalidDate is the time of an Invalid Date
JDate(n) == [t |-> "date", v |-> <<n>>]
InvalidDate == -1

\* new Date(x) for a property x that was parsed from JSON
DateOf(x) ==
    IF /\ x.t = "string"
       /\ StrOf(x) /= ""
       /\ \A i \in 1..Len(StrOf(x)) : Ch(StrOf(x), i) \in Digits
    THEN JDate(NewDate(StrOf(x)))
    ELSE JDate(InvalidDate)

\* x.key = val on an object
SetMember(x, key, val) == JObj(Append(x.v, <<key, val>>))

\* whether the body of the loop of loadConversations completes on conv: the
\* property reads and writes on conv and on each of its messages throw a
\* TypeError on null and on a primitive (the module is in strict mode), and
\* so does conv.messages.forEach if conv.messages is no array
CanRevive(conv) ==
    /\ conv.t = "object"
    /\ Get(conv, "messages").t = "array"
    /\ \A i \in 1..Len(Get(conv, "messages").v) :
          Get(conv, "messages").v[i].t = "object"

\* conv after the body of the loop
RevivedRecord(conv) ==
    SetMember(
        SetMember(SetMember(conv, "createdAt", DateOf(Get(conv, "createdAt"))),
                  "updatedAt", DateOf(Get(conv, "updatedAt"))),
        "messages",
        JArr([i \in 1..Len(Get(conv, "messages").v) |->
                SetMember(Get(conv, "messages").v[i], "timestamp",
                          DateOf(Get(Get(conv, "messages").v[i], "timestamp")))]))

\* the key of this._conversations.set(conv.id, conv); the records of the
\* inputs have a string for id
MapKey(conv) == StrOf(Get(conv, "id"))

\* the loop of loadConversations from element i on, keys and objs being the
\* keys and the values of the Map so far: it ends at the end of the array
\* or at the first element whose body throws
RECURSIVE LoadRecords(_, _, _, _)
LoadRecords(elems, i, keys, objs) ==
    IF i > Len(elems) THEN [keys |-> keys, objs |-> objs, caught |-> FALSE]
    ELSE IF CanRevive(elems[i])
    THEN LoadRecords(elems, i + 1, MapSet(keys, MapKey(elems[i])),
                     (MapKey(elems[i]) :> RevivedRecord(elems[i])) @@ objs)
    ELSE [keys |-> keys, objs |-> objs, caught |-> TRUE]

\* loadConversations() after JSON.parse(stored), r being what it gave: a
\* SyntaxError, a value that cannot be iterated or an element that cannot be
\* revived end it in its catch block
LoadParsed(r) ==
    IF ~r.ok THEN [keys |-> <<>>, objs |-> <<>>, caught |-> TRUE]
    ELSE IF r.v.t = "array" THEN LoadRecords(r.v.v, 1, <<>>, <<>>)
    ELSE [keys |-> <<>>, objs |-> <<>>,
          caught |-> ~(r.v.t = "string" /\ StrOf(r.v) = "")]

\* loadConversations() on the value st of the storage, <<>> for none: the
\* Map it leaves, and whether it caught an error
LoadStored(st) ==
    IF st = <<>> \/ st[1] = ""
    THEN [keys |-> <<>>, objs |-> <<>>, caught |-> FALSE]
    ELSE LoadParsed(JSONParse(st[1]))
\* the constructor of PerplexityService: the field initializers have run,
\* and it calls loadConversations()
Constructor(p) ==
    /\ CanStartProc(p)
    /\ \A q \in DOMAIN procs : procs[q].kind /= "constructor"
    /\ conversations' = LoadStored(stored).keys
    /\ objects' = LoadStored(stored).objs
    /\ procs' = SetProc(p, "constructor", "done")
    /\ op' = NoOp
    /\ UNCHANGED <<currentConversation, isWeb, transports, sessionFile, isAuthenticated, client,
                   clients, calls, notifications, stored, now, nextId>>
    /\ UNCHANGED parserVars

\* loadSession() called on client k
ClientLoadSession(p, k) ==
    /\ CanStartProc(p)
    /\ clients' = [clients EXCEPT ![k].session =
                      LoadedSession(sessionFile, @).session]
    /\ procs' = [procs EXCEPT ![p] =
          [@ EXCEPT !.kind = "client.loadSession", !.pc = "done",
                    !.target = k,
                    !.result =
                        <<LoadedSession(sessionFile, clients[k].session).result>>]]
    /\ op' = NoOp
    /\ UNCHANGED <<currentConversation, isWeb, transports, sessionFile, isAuthenticated, client,
                   conversations, objects, calls, notifications, stored, now,
                   nextId>>
    /\ UNCHANGED parserVars

\* the records of a stored snapshot: two conversations as JSON.stringify
\* writes them, an object that is no conversation, and null
RecordText(id) ==
    "{" \o MetaMember("id", id) \o "," \o MetaMember("title", "Plan") \o ","
        \o Quoted("messages") \o ":[{" \o MetaMember("id", "m" \o id) \o ","
        \o MetaMember("timestamp", "0") \o "}],"
        \o MetaMember("createdAt", "0") \o ","
        \o MetaMember("updatedAt", "1") \o "}"
RecordNoMessages == "{" \o MetaMember("id", "k3") \o "}"
RecordNull == "null"
GoodRecords == {RecordText("k1"), RecordText("k2")}
RecordPool == GoodRecords \cup {RecordNoMessages, RecordNull}

\* the invocations of the constructor and of loadSession(), and the number
\* of records of a snapshot
MaxLoadProcs == 2
MaxRecords == 2

\* the text of an array of records
RECURSIVE JoinRecords(_)
JoinRecords(rs) ==
    IF rs = <<>> THEN ""
    ELSE IF Len(rs) = 1 THEN rs[1]
    ELSE rs[1] \o "," \o JoinRecords(Tail(rs))

ArrayTexts(pool) ==
    {"[" \o JoinRecords(rs) \o "]" :
        rs \in UNION {[1..n -> pool] : n \in 0..MaxRecords}}

\* the texts stored under 'perplexity.conversations': snapshots written by
\* saveConversations(), and texts that are none: the empty text, a snapshot
\* cut short, a document that is no array, arrays with other records
GoodSnapshots == ArrayTexts(GoodRecords)
SnapshotTexts == ArrayTexts(RecordPool) \cup {"", "[" \o RecordText("k1"), "{}"}

\* a window before the construction of its service, with a client that a
\* script has constructed; here stored holds the text that is stored
InitLoad ==
    /\ stream = ""
    /\ ProcessStreamingResponse
    /\ isWeb = FALSE
    /\ currentConversation = NoConversation
    /\ sessionFile \in SessionFiles
    /\ isAuthenticated = FALSE
    /\ client = NoClient
    /\ clients = <<NewClient>>
    /\ transports = <<>>
    /\ procs = [p \in 1..MaxLoadProcs |-> IdleProc]
    /\ conversations = <<>>
    /\ objects = <<>>
    /\ calls = <<IdleCall>>
    /\ notifications = <<>>
    /\ stored \in {<<>>} \cup {<<text>> : text \in SnapshotTexts}
    /\ now = 0
    /\ nextId = 1
    /\ op = NoOp

NextLoad ==
    \/ \E p \in DOMAIN procs : Constructor(p)
    \/ \E p \in DOMAIN procs, k \in 1..Len(clients) : ClientLoadSession(p, k)

SpecLoad == InitLoad /\ [][NextLoad]_vars

\* the constructor has returned
ConstructorReturned ==
    \E p \in DOMAIN procs : procs[p].kind = "constructor" /\ procs[p].pc = "done"

\* the storage holds no snapshot, or a text that is not a snapshot of
\* conversations
NothingStored == stored = <<>> \/ stored[1] \notin GoodSnapshots

\* C22: absent or corrupt persisted data is 'nothing stored'.  When the
\* stored snapshot is absent, is not valid JSON or contains a record that
\* cannot be decoded, the constructor returns and the conversation set is
\* empty afterwards; when the session file is absent or does not hold a
\* session, loadSession() returns false and the client holds no session.
C22_NothingStored ==
    /\ (ConstructorReturned /\ NothingStored) => conversations = <<>>
    /\ \A p \in DOMAIN procs :
          ( /\ procs[p].kind = "client.loadSession"
            /\ procs[p].pc = "done"
            /\ sessionFile /= "valid" )
          => /\ procs[p].result = <<FALSE>>
             /\ clients[procs[p].target].session = "null"

(***************************************************************************)
(* Exchanges issued one at a time (SpecInTurn).                            *)
(***************************************************************************)
NextInTurn ==
    \/ \E c \in DOMAIN calls, content \in Contents, idArg \in IdArgs :
            SendMessageInTurn(c, content, idArg)
    \/ ExchangeContinues
    \/ \E titleArg \in TitleArgs : CreateConversation(titleArg)

SpecInTurn == InitExchange /\ [][NextInTurn]_vars

\* call c of sendMessage returns in this step
Returns(c) == calls[c].pc = "resolved" /\ calls'[c].pc = "done"

\* the title that the content of the first message of conv gives
TitleOfFirst(conv) ==
    IF Len(conv.messages[1].content) <= 50
    THEN conv.messages[1].content
    ELSE SubSeq(conv.messages[1].content, 1, 50) \o "..."

\* a conversation holds an assistant message
HoldsAnswer(conv) ==
    \E i \in 1..Len(conv.messages) : ~conv.messages[i].isUser

\* C23: title rewrite after a failed first exchange.  With sendMessage
\* calls issued one at a time: whenever a call returns on a conversation
\* that has the default title, the title becomes the content of the first
\* user message of the conversation, truncated to 50 characters, also when
\* an earlier exchange on it failed; and no conversation that holds an
\* assistant message has the title 'New Conversation'.
C23_Step ==
    \A c \in DOMAIN calls :
        (Returns(c) /\ objects[calls[c].conv].title = DefaultTitle)
        => objects'[calls[c].conv].title = TitleOfFirst(objects'[calls[c].conv])

C23_TitleAfterFailedExchange ==
    /\ [][C23_Step]_vars
    /\ [](\A id \in DOMAIN objects :
            HoldsAnswer(objects[id]) => objects[id].title /= DefaultTitle)

(***************************************************************************)
(* The answer and the tokens of a stream (SpecParser).                     *)
(***************************************************************************)
\* line n of lines is a data: line that passes the event gate and carries
\* one chunk-less answer-text block whose answer is longer than the answer
\* accumulated before the line, and does not begin with it
SnapshotDeparts(lines, n) ==
    LET before == ProcessLines(H0, SubSeq(lines, 1, n - 1))
        line == CleanLine(lines[n])
        doc == JSONParse(Payload(line))
    IN  /\ StartsWith(line, "data:")
        /\ doc.ok
        /\ IsSnapshotDocument(doc.v)
        /\ ~EventGateSkips(before.p.lastEvent)
        /\ Len(SnapshotAnswer(doc.v)) > Len(before.p.currentAnswer)
        /\ ~StartsWith(SnapshotAnswer(doc.v), before.p.currentAnswer)

\* every snapshot of the stream is cumulative: it holds the text that the
\* updates before it have given
CumulativeSnapshots(lines) ==
    \A n \in 1..Len(lines) : ~SnapshotDeparts(lines, n)

\* the answer of the Response and the content that sendMessage stores for
\* it are the tokens emitted, joined in their order
AnswerIsTokens ==
    /\ response[1].answer = Concat(tokens)
    /\ AssistantMessage("a", response[1], now).content = Concat(tokens)

\* C24 as stated: answer equals the concatenation of tokens.  For every
\* stream that has ended normally, whatever mix of chunk lists and answer
\* snapshots it carries, the answer of the resolved Response and the content
\* of the assistant message are the tokens passed to the token callback,
\* joined in their order.
C24_AnswerIsConcatenation == outcome = "resolved" => AnswerIsTokens

\* C24, amended: the same for the streams in which every snapshot longer
\* than the answer accumulated before it begins with that answer.
C24_AnswerIsConcatenationAmended ==
    (outcome = "resolved" /\ CumulativeSnapshots(ReceivedLines))
    => AnswerIsTokens

\* a stream of a chunk list and a snapshot that continues it has ended
\* normally: the chunks were emitted, then the rest of the snapshot
C24_Witness ==
    /\ outcome = "resolved"
    /\ ReceivedLines = <<LineLlo, LineAnswerMore>>
    /\ tokens = <<"l", "lo", "!">>
    /\ response[1].answer = "llo!"

(***************************************************************************)
(* The authentication status and the client (SpecService).                 *)
(***************************************************************************)
\* the client of the service holds a session and a transport
ClientUsable ==
    /\ client \in 1..Len(clients)
    /\ clients[client].session /= "null"
    /\ HoldsTransport(clients[client])

\* C25: authenticated implies a usable session.  In every state in which
\* isAuthenticated is true the client of the service holds a session and an
\* initialized transport, also between the awaits of an initialize() or an
\* authenticate() in progress; and no call of sendMessage made in such a
\* state fails for lack of a session.
C25_AuthenticatedImpliesSession ==
    /\ [](isAuthenticated => ClientUsable)
    /\ [][\A c \in DOMAIN calls :
            (Called(c) /\ isAuthenticated) => calls'[c].failure /= "noSession"]_vars

(***************************************************************************)
(* Completion and the store (SpecExchange).                                *)
(***************************************************************************)
\* conv holds the user message m and, after it, an assistant message
HoldsExchange(conv, m) ==
    \E i \in 1..Len(conv.messages) :
        /\ conv.messages[i].id = m
        /\ conv.messages[i].isUser
        /\ \E j \in (i + 1)..Len(conv.messages) : ~conv.messages[j].isUser

\* the message-completed notification published by this step, if any
CompletedNow ==
    {n \in Range(notifications') \ Range(notifications) : n.type = "complete"}

\* C26: completion refers to a stored conversation.  Whenever a step
\* publishes a message-completed notification for messageId m, the store
\* and the snapshot persisted by that step hold a conversation with the
\* user message m followed by an assistant message, also when
\* deleteConversation or clearConversations has run while the exchange was
\* in flight.
C26_Step ==
    \A n \in CompletedNow :
        /\ \E id \in Range(conversations') :
              HoldsExchange(objects'[id], n.messageId)
        /\ stored' /= <<>>
        /\ \E i \in 1..Len(stored'[1]) : HoldsExchange(stored'[1][i], n.messageId)

C26_CompletionRefersToStored == [][C26_Step]_vars

(***************************************************************************)
(* Concurrent exchanges with response streams of their own (SpecIsolation).*)
(***************************************************************************)
\* the response stream of call c
CallChunks(c) == IF c % 2 = 0 THEN OtherChunks ELSE Chunks

\* the authenticated service of InitExchange, the transport answering each
\* call with a stream of its own
InitIsolation ==
    /\ stream = ""
    /\ ProcessStreamingResponse
    /\ isWeb = FALSE
    /\ currentConversation = NoConversation
    /\ sessionFile = "valid"
    /\ isAuthenticated = TRUE
    /\ client = 1
    /\ clients = <<[cycleTLS |-> 1, session |-> "valid"]>>
    /\ transports = <<NewTransport>>
    /\ procs = <<[IdleProc EXCEPT !.kind = "initialize", !.pc = "done",
                                   !.target = 1, !.hasSession = TRUE]>>
    /\ conversations = <<>>
    /\ objects = <<>>
    /\ calls = [c \in 1..MaxCalls |-> [IdleCall EXCEPT !.chunks = CallChunks(c)]]
    /\ notifications = <<AuthEvent(TRUE)>>
    /\ stored = <<>>
    /\ now = 0
    /\ nextId = 1
    /\ op = NoOp

SpecIsolation == InitIsolation /\ [][NextExchange]_vars

\* a fresh parser run over the first n chunks of a stream
RECURSIVE StreamRun(_, _)
StreamRunNext(prev, chunks, n) ==
    [OnData(prev.p, chunks[n]) EXCEPT !.out = prev.out \o @]
StreamRun(chunks, n) ==
    IF n = 0 THEN H0 ELSE StreamRunNext(StreamRun(chunks, n - 1), chunks, n)

\* for each call, what a parser that reads nothing but the stream of the
\* call has emitted and accumulated after n chunks
OwnRun ==
    [c \in 1..MaxCalls |->
        [n \in 0..Len(CallChunks(c)) |-> StreamRun(CallChunks(c), n)]]

\* the accepted calls whose conversation is that of no other accepted call
OnOwnConversation ==
    {c \in Accepted : \A d \in Accepted \ {c} : calls[d].conv /= calls[c].conv}

\* the conversations that hold an assistant message with the given content
AnsweredWith(answer) ==
    {id \in DOMAIN objects :
        \E i \in 1..Len(objects[id].messages) :
            /\ ~objects[id].messages[i].isUser
            /\ objects[id].messages[i].content = answer}

\* C27: isolation of concurrent exchanges on different conversations.  For
\* two calls of sendMessage on different conversations, however the events
\* of their streams interleave: the token notifications with the message id
\* of a call are the tokens of the stream of that call, in order, and every
\* token notification has the id of a call; the answer a call has
\* accumulated is that of its own stream; and the assistant message of a
\* call that has returned is in the conversation of that call and in no
\* other.
C27_Isolation ==
    /\ \A i \in 1..Len(notifications) :
          notifications[i].type = "token"
          => \E c \in Accepted : calls[c].messageId = notifications[i].messageId
    /\ \A c \in OnOwnConversation :
          /\ TokensPublished(calls[c].messageId) = OwnRun[c][calls[c].delivered].out
          /\ calls[c].parser = OwnRun[c][calls[c].delivered].p
          /\ calls[c].pc = "done"
             => /\ calls[c].response[1].answer =
                      OwnRun[c][Len(CallChunks(c))].p.currentAnswer
                /\ AnsweredWith(calls[c].response[1].answer)
                      \subseteq {calls[c].conv}
                /\ calls[c].conv \in Range(conversations)
                      => calls[c].conv \in AnsweredWith(calls[c].response[1].answer)

\* two calls on two conversations have returned, a token of the second
\* having been published between two tokens of the first, and each
\* conversation holds the answer of its own stream
C27_Witness ==
    /\ calls[1].pc = "done" /\ calls[2].pc = "done"
    /\ calls[1].conv /= calls[2].conv
    /\ \E i \in Positions("token", calls[1].messageId),
          j \in Positions("token", calls[2].messageId),
          k \in Positions("token", calls[1].messageId) : i < j /\ j < k
    /\ AnsweredWith("Hello") = {calls[1].conv}
    /\ AnsweredWith("llo!") = {calls[2].conv}

(***************************************************************************)
(* Overlapping calls of initialize() and of close() on a client            *)
(* (SpecTeardown).                                                         *)
(***************************************************************************)
\* a call of initialize() on a client gets its transport in this step
Builds(p) ==
    /\ procs[p].kind = "client.initialize"
    /\ procs[p].pc = "initCycleTLS"
    /\ Len(transports') > Len(transports)

\* no call of initialize() on a client builds a transport for a client that
\* holds one
BuildsOnce ==
    \A p \in DOMAIN procs :
        Builds(p) => ~HoldsTransport(clients[procs[p].target])

\* exit() was called at most once on every transport
ExitsOnce == \A t \in 1..Len(transports) : transports[t] <= 1

\* C28: race-free transport lifecycle on the client.  When calls of
\* initialize() on a client overlap, the transport is constructed at most
\* once: no call constructs one for a client that holds one; and when calls
\* of close() overlap, exit() is invoked at most once on the transport.
C28_RaceFreeLifecycle == [][BuildsOnce]_vars /\ []ExitsOnce

(***************************************************************************)
(* The transports of the service at dispose() (SpecTeardown).              *)
(***************************************************************************)
\* dispose() is called in this step, as invocation p, after calls of
\* initialize() and authenticate() on the service that have all returned or
\* failed, and after nothing else
DisposesAfterAll(p) ==
    /\ procs[p].pc = "idle"
    /\ procs'[p].kind = "dispose"
    /\ \A q \in DOMAIN procs \ {p} :
          /\ procs[q].pc \in {"idle", "done", "failed"}
          /\ procs[q].kind \in {"", "initialize", "authenticate"}

\* C29: no transport leak at the service level.  When dispose() is called
\* after calls of initialize() and authenticate() on the service that have
\* all returned, exit() has been invoked on every transport that was
\* constructed.
C29_Step ==
    \A p \in DOMAIN procs :
        DisposesAfterAll(p)
        => \A t \in 1..Len(transports') : transports'[t] >= 1

C29_NoTransportLeak == [][C29_Step]_vars

(***************************************************************************)
(* The handshake and the transport (SpecService).                          *)
(***************************************************************************)
\* authenticate(), as invocation p, calls createSession() on the client of
\* the service in this step
InvokesCreateSession(p) ==
    /\ procs[p].pc \in {"idle", "returned"}
    /\ procs'[p].kind = "authenticate"
    /\ \/ procs'[p].pc = "createSession"
       \/ procs'[p].handshake = "notCallable"

\* C30: authenticate() only performs the handshake on an initialized
\* transport.  Whenever authenticate() calls createSession() on the client
\* of the service, the transport of that client has been constructed; in
\* particular after an initialize() that failed while constructing the
\* transport, authenticate() does not attempt the handshake on the
\* uninitialized client.
C30_Step ==
    \A p \in DOMAIN procs :
        InvokesCreateSession(p)
        => client \in 1..Len(clients) /\ HoldsTransport(clients[client])

C30_HandshakeOnInitializedTransport == [][C30_Step]_vars

(***************************************************************************)
(* PerplexityViewPane: the chat panel on an authenticated service          *)
(* (SpecPane).  The panel holds in currentConversation the conversation    *)
(* object that createConversation() or getConversations() returned, which  *)
(* is the object the Map of the service holds.                             *)
(***************************************************************************)
MaxPaneConversations == 2

\* the values of the message input when Send is pressed
InputValues == {"", "  ", " hi ", Content51}

\* the two messages sendMessage() of the panel builds, userMessage and
\* assistantMessage: ids of Date.now().toString(), no response member
PaneMessages(content, t) ==
    <<UserMessage(ToString(t), content, t),
      [id |-> ToString(t) \o "_assistant", content |-> "", timestamp |-> t,
       isUser |-> FALSE, response |-> <<>>]>>

\* currentConversation.messages.push(userMessage), then
\* currentConversation.messages.push(assistantMessage)
PaneAppended(conv, content, t) ==
    [conv EXCEPT !.messages = @ \o PaneMessages(content, t)]

\* onTokenReceived({messageId, token}) on the objects objs
OnTokenReceived(objs, token) ==
    IF currentConversation = NoConversation THEN objs
    ELSE LET messages == objs[currentConversation].messages
         IN  IF messages /= <<>> /\ ~messages[Len(messages)].isUser
             THEN [objs EXCEPT ![currentConversation].messages[Len(messages)].content =
                                  @ \o token]
             ELSE objs

\* onTokenReceived called on each token of out, in order
RECURSIVE OnTokensReceived(_, _)
OnTokensReceived(objs, out) ==
    IF out = <<>> THEN objs
    ELSE OnTokensReceived(OnTokenReceived(objs, Head(out)), Tail(out))

\* startNewConversation(): createConversation(), then selectConversation
\* of the object it returned
StartNewConversation ==
    /\ Len(conversations) < MaxPaneConversations
    /\ Created(nextId, <<>>)
    /\ nextId' = nextId + 1
    /\ currentConversation' = GenerateId(nextId)
    /\ op' = [name |-> "createConversation", arg |-> <<>>]
    /\ UNCHANGED <<isWeb, transports, sessionFile, isAuthenticated, client, clients, procs,
                   calls, notifications, now>>
    /\ UNCHANGED parserVars

\* selectConversation(conversation), from a click on an item of the list
\* that renderConversations built from getConversations()
SelectConversation(id) ==
    /\ id /= currentConversation
    /\ currentConversation' = id
    /\ op' = NoOp
    /\ UNCHANGED <<isWeb, transports, sessionFile, isAuthenticated, client, clients, procs,
                   conversations, objects, calls, notifications, stored, now, nextId>>
    /\ UNCHANGED parserVars

\* sendMessage() of the panel, on the value of the message input, up to
\* the first await of the sendMessage() of the service that it calls
PaneSendMessage(c, value) ==
    /\ Trim(value) /= ""
    /\ currentConversation /= NoConversation
    /\ CanStartCall(c)
    /\ IF ~isAuthenticated
       THEN /\ calls' = [calls EXCEPT ![c] = Rejected(@, "notAuthenticated")]
            /\ objects' = [objects EXCEPT ![currentConversation] =
                              PaneAppended(@, Trim(value), now)]
            /\ UNCHANGED nextId
       ELSE IF isWeb
       THEN /\ calls' = [calls EXCEPT ![c] = Rejected(@, "web")]
            /\ objects' = [objects EXCEPT ![currentConversation] =
                              PaneAppended(@, Trim(value), now)]
            /\ UNCHANGED nextId
       ELSE IF currentConversation \notin Range(conversations)
       THEN /\ calls' = [calls EXCEPT ![c] = Rejected(@, "notFound")]
            /\ objects' = [objects EXCEPT ![currentConversation] =
                              PaneAppended(@, Trim(value), now)]
            /\ nextId' = nextId + 1
       ELSE /\ calls' = [calls EXCEPT ![c] =
                  ClientSendMessage(
                      [@ EXCEPT !.content = Trim(value),
                                !.messageId = GenerateId(nextId),
                                !.conv = currentConversation])]
            /\ objects' =
                Collect([objects EXCEPT ![currentConversation] =
                            Pushed(PaneAppended(@, Trim(value), now),
                                   UserMessage(GenerateId(nextId), Trim(value), now),
                                   now)],
                        conversations, calls')
            /\ nextId' = nextId + 1
    /\ op' = [name |-> "sendMessage", arg |-> <<currentConversation>>]
    /\ UNCHANGED <<currentConversation, isWeb, transports, sessionFile, isAuthenticated,
                   client, clients, procs, conversations, notifications, stored, now>>
    /\ UNCHANGED parserVars

\* the stream of call c emits 'data' with its next chunk, and the panel
\* listens to the tokens
PaneData(c) ==
    /\ calls[c].pc = "streaming"
    /\ Open(calls[c].transport)
    /\ calls[c].delivered < Len(calls[c].chunks)
    /\ Delivered(c, OnData(calls[c].parser,
                            calls[c].chunks[calls[c].delivered + 1]))
    /\ objects' = OnTokensReceived(objects,
          OnData(calls[c].parser, calls[c].chunks[calls[c].delivered + 1]).out)
    /\ op' = NoOp
    /\ UNCHANGED <<currentConversation, isWeb, transports, sessionFile, isAuthenticated,
                   client, clients, procs, conversations, stored, now, nextId>>
    /\ UNCHANGED parserVars

\* the chat panel of an authenticated desktop service: new conversations,
\* selections and sends of the panel, and the exchanges they start
NextPane ==
    \/ StartNewConversation
    \/ \E id \in Range(conversations) : SelectConversation(id)
    \/ \E c \in DOMAIN calls, value \in InputValues : PaneSendMessage(c, value)
    \/ \E c \in DOMAIN calls : Timer(c)
    \/ \E c \in DOMAIN calls, r \in Responses : Respond(c, r)
    \/ \E c \in DOMAIN calls : PaneData(c)
    \/ \E c \in DOMAIN calls : ExchangeEnd(c)
    \/ \E c \in DOMAIN calls : ExchangeError(c)
    \/ \E c \in DOMAIN calls : Complete(c)
    \/ Tick

SpecPane == InitExchange /\ [][NextPane]_vars

\* the exchange of call c succeeds in this step, and it is the only one that
\* the panel has sent on its conversation, which was new when it was sent
FirstExchangeSucceeds(c) ==
    /\ calls[c].pc = "resolved"
    /\ calls'[c].pc = "done"
    /\ \A d \in DOMAIN calls \ {c} : calls[d].conv /= calls[c].conv

\* conv holds one user message with this content and then one assistant
\* message with this answer, and nothing else, under the title of the content
HoldsOneExchange(conv, content, answer) ==
    /\ Len(conv.messages) = 2
    /\ conv.messages[1].isUser
    /\ conv.messages[1].content = content
    /\ ~conv.messages[2].isUser
    /\ conv.messages[2].content = answer
    /\ conv.title = TitleFor(content)

\* C31: one exchange through the chat panel adds exactly two messages.  When
\* sendMessage() of the view pane is used on a new conversation obtained
\* from the service and the exchange succeeds, the stored conversation
\* holds exactly two messages afterwards, the user message and the
\* assistant message with the full answer, with no user or assistant entry
\* twice, and its title is the one made from the content.
C31_Step ==
    \A c \in DOMAIN calls :
        FirstExchangeSucceeds(c)
        => /\ calls[c].conv \in Range(conversations')
           /\ HoldsOneExchange(objects'[calls[c].conv], calls[c].content,
                               calls[c].response[1].answer)
           /\ stored' = SaveConversations(conversations', objects')

C31_PaneExchangeAddsTwoMessages == [][C31_Step]_vars

====
